---- MODULE Spec2Model ----
(***************************************************************************)
(* A model of pycc4s' algorithm records (pycc4s/core/algorithms.py) and of  *)
(* the CC4S input document (pycc4s/core/inputs.py).                         *)
(*                                                                          *)
(* Strings.  A Python string is modelled as a sequence of tokens.  The      *)
(* three punctuation tokens SEP, DOT and DQ are the single characters "/",  *)
(* "." and the double quote; every other token stands for a non-empty run   *)
(* of characters that contains none of these three.  The word tokens are    *)
(* chosen so that no concatenation of two or more of them spells a key of   *)
(* _OBJECTS or of _ALGOS, hence a string names a registry key exactly when  *)
(* it is the one-token sequence of that key.                                *)
(*                                                                          *)
(* Values.  A Python value is a record tagged by its type:                  *)
(*   none, str, int, float, dict (a raw mapping), FName, Object (with its   *)
(*   class), model (a validated pydantic sub-model).                        *)
(***************************************************************************)
EXTENDS Integers, Sequences, FiniteSets, TLC

VARIABLES
    rec,      \* the algorithm record the client holds (NoRecord before any)
    ret,      \* the last call on records: its arguments and its outcome
    cmp,      \* the last comparison of two Objects: operands and results
    prog,     \* the CC4SIn the client holds (NoProgram before any)
    doc,      \* the content of the file cc4s.in (NoDoc before it is written)
    docOf,    \* history: the CC4SIn whose to_file wrote doc (NoProgram if none)
    loaded,   \* the outcome of the last call on a CC4SIn
    kinds,    \* the classes derived from BaseAlgo so far, and the registry
    call,     \* the last other call: its arguments and its outcome
    destdir   \* the files of the directory copy_or_link_objects fills

vars == <<rec, ret, cmp, prog, doc, docOf, loaded, kinds, call, destdir>>

-----------------------------------------------------------------------------
(* Bounds of the model *)

MaxFileNameLen == 3   \* longest fileName enumerated token by token
MaxSteps == 2         \* longest Program built or document written
MaxClientClasses == 2 \* most classes defined after the module is imported
MaxSubFields == 1     \* fields of a sub-record that are assigned to, from the first

-----------------------------------------------------------------------------
(* Tokens and strings *)

SEP == "/"
DOT == "."
DQ == "\""

V_None == [tag |-> "none"]
V_Str(s) == [tag |-> "str", s |-> s]
V_Int(n) == [tag |-> "int", n |-> n]
V_Float(n) == [tag |-> "float", n |-> n]
V_Dict(d) == [tag |-> "dict", d |-> d]
V_FName(s) == [tag |-> "FName", s |-> s]
V_Object(c, s) == [tag |-> "Object", cls |-> c, s |-> s]
V_Model(d) == [tag |-> "model", d |-> d]

IsStr(v) == v.tag \in {"str", "FName", "Object"}

RECURSIVE SeqsUpTo(_, _)
SeqsUpTo(S, n) ==
    IF n = 0 THEN {<<>>}
    ELSE LET shorter == SeqsUpTo(S, n - 1)
         IN shorter \cup {Append(q, t) : q \in shorter, t \in S}

-----------------------------------------------------------------------------
(* pathlib.PurePosixPath, as far as get_object uses it *)

\* The components of a path: the runs between separators, in order.
RECURSIVE SplitSep(_, _, _)
SplitSep(s, i, cur) ==
    IF i > Len(s) THEN <<cur>>
    ELSE IF s[i] = SEP THEN <<cur>> \o SplitSep(s, i + 1, <<>>)
    ELSE SplitSep(s, i + 1, Append(cur, s[i]))

\* Path(s).parts without the root: empty and "." components are dropped.
PathParts(s) ==
    SelectSeq(SplitSep(s, 1, <<>>), LAMBDA c : c # <<>> /\ c # <<DOT>>)

\* Path(s).name: the last component, the empty string if there is none.
Path_name(s) ==
    LET parts == PathParts(s)
    IN IF parts = <<>> THEN <<>> ELSE parts[Len(parts)]

\* The index of the dot that starts name's suffix, 0 if name has no suffix:
\* the last dot, if it is neither the first nor the last character.
SuffixStart(name) ==
    LET dots == {i \in 1..Len(name) : name[i] = DOT}
        last == IF dots = {} THEN 0 ELSE CHOOSE i \in dots : \A j \in dots : j <= i
    IN IF 1 < last /\ last < Len(name) THEN last ELSE 0

\* Faulty variant of Path_with_suffix_name that keeps the extension; C1 must
\* not hold of it.
Path_keeps_suffix(s) ==
    IF Path_name(s) = <<>> THEN [exc |-> "ValueError", name |-> <<>>]
    ELSE [exc |-> "none", name |-> Path_name(s)]

\* Path(s).with_suffix("").name; with_suffix raises ValueError on an empty name.
Path_with_suffix_name(s) ==
    LET name == Path_name(s)
        k == SuffixStart(name)
    IN IF name = <<>> THEN [exc |-> "ValueError", name |-> <<>>]
       ELSE [exc |-> "none",
             name |-> IF k = 0 THEN name ELSE SubSeq(name, 1, k - 1)]

-----------------------------------------------------------------------------
(* The Object registry of algorithms.py *)

ObjectClasses ==
    {"Amplitudes", "CoulombIntegrals", "CoulombPotential", "CoulombVertex",
     "CoulombVertexSingularVectors", "DeltaIntegrals", "EigenEnergies",
     "GridVectors", "Mp2PairEnergies", "SlicedCoulombVertex",
     "SlicedEigenEnergies", "StructureFactors"}

NoClass == "None"

_OBJECTS ==
    [k \in ObjectClasses \cup {"DeltaIntegralsHH", "DeltaIntegralsPPHH"} |->
        IF k \in {"DeltaIntegralsHH", "DeltaIntegralsPPHH"}
        THEN "DeltaIntegrals" ELSE k]

\* _OBJECTS.get(key, None) for a key that is a str value or None.
OBJECTS_get(key) ==
    IF key.tag \in {"str", "FName", "Object"} /\ Len(key.s) = 1
       /\ key.s[1] \in DOMAIN _OBJECTS
    THEN _OBJECTS[key.s[1]]
    ELSE NoClass

\* Faulty variant of get_object in which the class of the file name wins over
\* object_type; C2 must not hold of it.
get_object_fpath_wins(filename, destination, object_type) ==
    LET cls_ == OBJECTS_get(object_type)
        fpath == Path_with_suffix_name(filename)
        cls_from_fpath == OBJECTS_get(V_Str(fpath.name))
    IN IF fpath.exc # "none"
       THEN [exc |-> fpath.exc, warned |-> 0, obj |-> V_None]
       ELSE IF cls_from_fpath = NoClass
       THEN IF cls_ = NoClass
            THEN [exc |-> "AlgorithmInitializationError", warned |-> 0,
                  obj |-> V_None]
            ELSE [exc |-> "none", warned |-> 0, obj |-> V_Object(cls_, destination)]
       ELSE [exc |-> "none",
             warned |-> IF cls_ # NoClass /\ cls_ # cls_from_fpath THEN 1 ELSE 0,
             obj |-> V_Object(cls_from_fpath, destination)]

\* Faulty variant of get_object that rejects a hint naming no registered
\* class; C28 must not hold of it.
get_object_rejects_unknown(filename, destination, object_type) ==
    IF object_type.tag = "str" /\ OBJECTS_get(object_type) = NoClass
    THEN [exc |-> "AlgorithmInitializationError", warned |-> 0, obj |-> V_None]
    ELSE IF Path_with_suffix_name(filename).exc # "none"
    THEN [exc |-> Path_with_suffix_name(filename).exc, warned |-> 0,
          obj |-> V_None]
    ELSE IF OBJECTS_get(object_type) = NoClass
    THEN IF OBJECTS_get(V_Str(Path_with_suffix_name(filename).name)) = NoClass
         THEN [exc |-> "AlgorithmInitializationError", warned |-> 0,
               obj |-> V_None]
         ELSE [exc |-> "none", warned |-> 0,
               obj |-> V_Object(
                   OBJECTS_get(V_Str(Path_with_suffix_name(filename).name)),
                   destination)]
    ELSE [exc |-> "none",
          warned |-> IF OBJECTS_get(V_Str(Path_with_suffix_name(filename).name))
                           \notin {NoClass, OBJECTS_get(object_type)}
                     THEN 1 ELSE 0,
          obj |-> V_Object(OBJECTS_get(object_type), destination)]

\* get_object(filename_or_string, destination, object_type): the Object, the
\* number of warnings emitted, or the exception raised.
get_object(filename, destination, object_type) ==
    LET cls_ == OBJECTS_get(object_type)
        fpath == Path_with_suffix_name(filename)
        cls_from_fpath == OBJECTS_get(V_Str(fpath.name))
    IN IF fpath.exc # "none"
       THEN [exc |-> fpath.exc, warned |-> 0, obj |-> V_None]
       ELSE IF cls_ = NoClass
       THEN IF cls_from_fpath = NoClass
            THEN [exc |-> "AlgorithmInitializationError", warned |-> 0,
                  obj |-> V_None]
            ELSE [exc |-> "none", warned |-> 0,
                  obj |-> V_Object(cls_from_fpath, destination)]
       ELSE [exc |-> "none",
             warned |-> IF cls_from_fpath # NoClass /\ cls_ # cls_from_fpath
                        THEN 1 ELSE 0,
             obj |-> V_Object(cls_, destination)]

-----------------------------------------------------------------------------
(* Object.__eq__, and the != that class Object inherits from str *)

Object_eq(a, b) == a.cls = b.cls /\ a.s = b.s

Object_ne(a, b) == a.s # b.s

-----------------------------------------------------------------------------
(* The algorithm classes and their Input / Output schemas *)

AlgoClasses ==
    {"ReadAlgo", "WriteAlgo", "DefineHolesAndParticlesAlgo", "SliceOperatorAlgo",
     "VertexCoulombIntegralsAlgo", "CoupledClusterAlgo",
     "FiniteSizeCorrectionAlgo", "BasisSetCorrectionAlgo",
     "PerturbativeTriplesAlgo", "SecondOrderPerturbationTheoryAlgo"}

\* cls.__name__[:-4]: the class name without its suffix "Algo".
algo_name(cls) ==
    CASE cls = "ReadAlgo" -> "Read"
      [] cls = "WriteAlgo" -> "Write"
      [] cls = "DefineHolesAndParticlesAlgo" -> "DefineHolesAndParticles"
      [] cls = "SliceOperatorAlgo" -> "SliceOperator"
      [] cls = "VertexCoulombIntegralsAlgo" -> "VertexCoulombIntegrals"
      [] cls = "CoupledClusterAlgo" -> "CoupledCluster"
      [] cls = "FiniteSizeCorrectionAlgo" -> "FiniteSizeCorrection"
      [] cls = "BasisSetCorrectionAlgo" -> "BasisSetCorrection"
      [] cls = "PerturbativeTriplesAlgo" -> "PerturbativeTriples"
      [] cls = "SecondOrderPerturbationTheoryAlgo" -> "SecondOrderPerturbationTheory"

\* Faulty variant of name_default: the default of BaseAlgo's own name field,
\* as if __init_subclass__ did not set it; C6 must not hold of it.
name_default_of_base(cls) == <<>>

\* cls.__fields__["name"].default, as __init_subclass__ leaves it.
name_default(cls) == <<algo_name(cls)>>

_ALGOS ==
    [n \in {algo_name(c) : c \in AlgoClasses} |->
        CHOOSE c \in AlgoClasses : algo_name(c) = n]

\* A declared field: its name, its type (a primitive, FName, MixerModel or an
\* Object class) and whether it is Optional.
Fld(n, t, o) == [name |-> n, type |-> t, optional |-> o]

MixerModel ==
    << Fld("type", "str", FALSE), Fld("maxResidua", "int", TRUE),
       Fld("ratio", "float", TRUE) >>

Input(cls) ==
    CASE cls = "ReadAlgo" ->
            << Fld("fileName", "FName", FALSE), Fld("object_type", "str", TRUE) >>
      [] cls = "WriteAlgo" ->
            << Fld("source", "str", FALSE), Fld("fileName", "FName", FALSE),
               Fld("binary", "int", TRUE) >>
      [] cls = "DefineHolesAndParticlesAlgo" ->
            << Fld("eigenEnergies", "EigenEnergies", FALSE) >>
      [] cls = "SliceOperatorAlgo" ->
            << Fld("slicedEigenEnergies", "SlicedEigenEnergies", FALSE),
               Fld("operator", "CoulombVertex", FALSE) >>
      [] cls = "VertexCoulombIntegralsAlgo" ->
            << Fld("slicedCoulombVertex", "SlicedCoulombVertex", FALSE) >>
      [] cls = "CoupledClusterAlgo" ->
            << Fld("method", "str", FALSE), Fld("linearized", "int", TRUE),
               Fld("integralsSliceSize", "int", FALSE),
               Fld("slicedEigenEnergies", "SlicedEigenEnergies", FALSE),
               Fld("coulombIntegrals", "CoulombIntegrals", FALSE),
               Fld("slicedCoulombVertex", "SlicedCoulombVertex", FALSE),
               Fld("maxIterations", "int", FALSE),
               Fld("energyConvergence", "float", FALSE),
               Fld("amplitudesConvergence", "float", FALSE),
               Fld("mixer", "MixerModel", FALSE),
               Fld("initialAmplitudes", "Amplitudes", TRUE) >>
      [] cls = "FiniteSizeCorrectionAlgo" ->
            << Fld("amplitudes", "Amplitudes", FALSE),
               Fld("coulombPotential", "CoulombPotential", FALSE),
               Fld("slicedCoulombVertex", "SlicedCoulombVertex", FALSE),
               Fld("coulombVertexSingularVectors", "CoulombVertexSingularVectors", FALSE),
               Fld("gridVectors", "GridVectors", FALSE),
               Fld("interpolationGridSize", "int", TRUE) >>
      [] cls = "BasisSetCorrectionAlgo" ->
            << Fld("amplitudes", "Amplitudes", FALSE),
               Fld("coulombIntegrals", "CoulombIntegrals", FALSE),
               Fld("slicedEigenEnergies", "SlicedEigenEnergies", FALSE),
               Fld("mp2PairEnergies", "Mp2PairEnergies", FALSE),
               Fld("deltaIntegralsHH", "DeltaIntegrals", FALSE),
               Fld("deltaIntegralsPPHH", "DeltaIntegrals", FALSE) >>
      [] cls = "PerturbativeTriplesAlgo" ->
            << Fld("amplitudes", "Amplitudes", FALSE),
               Fld("coulombIntegrals", "CoulombIntegrals", FALSE),
               Fld("slicedEigenEnergies", "SlicedEigenEnergies", FALSE),
               Fld("mp2PairEnergies", "Mp2PairEnergies", FALSE) >>
      [] cls = "SecondOrderPerturbationTheoryAlgo" ->
            << Fld("coulombIntegrals", "CoulombIntegrals", FALSE),
               Fld("slicedEigenEnergies", "SlicedEigenEnergies", FALSE) >>

Output(cls) ==
    CASE cls = "ReadAlgo" -> << Fld("destination", "str", FALSE) >>
      [] cls = "DefineHolesAndParticlesAlgo" ->
            << Fld("slicedEigenEnergies", "SlicedEigenEnergies", FALSE) >>
      [] cls = "SliceOperatorAlgo" ->
            << Fld("slicedOperator", "SlicedCoulombVertex", FALSE) >>
      [] cls = "VertexCoulombIntegralsAlgo" ->
            << Fld("coulombIntegrals", "CoulombIntegrals", FALSE) >>
      [] cls = "CoupledClusterAlgo" -> << Fld("amplitudes", "Amplitudes", FALSE) >>
      [] cls = "FiniteSizeCorrectionAlgo" ->
            << Fld("transitionStructureFactor", "StructureFactors", FALSE) >>
      [] OTHER -> << >>

FieldNames(schema) == {schema[i].name : i \in 1..Len(schema)}

-----------------------------------------------------------------------------
(* Numbers and their decimal spelling *)

Numerals == {"4", "100"}

NumeralValue(t) == IF t = "4" THEN 4 ELSE 100

NumeralOf(n) == IF n = 4 THEN "4" ELSE "100"

\* str(v) of a number: an int is its numeral, a float has a fraction part.
str_of_number(v) ==
    IF v.tag = "int" THEN <<NumeralOf(v.n)>> ELSE <<NumeralOf(v.n), DOT, "0">>

IsIntText(s) == Len(s) = 1 /\ s[1] \in Numerals

IsFloatText(s) == Len(s) = 3 /\ s[1] \in Numerals /\ s[2] = DOT /\ s[3] = "0"

-----------------------------------------------------------------------------
(* pydantic's validation of one field value *)

Err(loc, type) == [loc |-> loc, type |-> type, permitted |-> <<>>]

\* str.strip('"'): the string without its leading and trailing double quotes.
RECURSIVE lstrip_dq(_)
lstrip_dq(s) == IF s # <<>> /\ Head(s) = DQ THEN lstrip_dq(Tail(s)) ELSE s

RECURSIVE rstrip_dq(_)
rstrip_dq(s) ==
    IF s # <<>> /\ s[Len(s)] = DQ THEN rstrip_dq(SubSeq(s, 1, Len(s) - 1)) ELSE s

strip_dq(s) == rstrip_dq(lstrip_dq(s))

\* pydantic's str_validator, int_validator and float_validator.
type_validation(type, v) ==
    CASE type \in {"str", "FName"} \cup ObjectClasses ->
            IF IsStr(v) THEN [err |-> "", v |-> v]
            ELSE IF v.tag \in {"int", "float"}
            THEN [err |-> "", v |-> V_Str(str_of_number(v))]
            ELSE [err |-> "type_error.str", v |-> V_None]
      [] type = "int" ->
            IF v.tag \in {"int", "float"} THEN [err |-> "", v |-> V_Int(v.n)]
            ELSE IF IsStr(v) /\ IsIntText(v.s)
            THEN [err |-> "", v |-> V_Int(NumeralValue(v.s[1]))]
            ELSE [err |-> "type_error.integer", v |-> V_None]
      [] type = "float" ->
            IF v.tag \in {"int", "float"} THEN [err |-> "", v |-> V_Float(v.n)]
            ELSE IF IsStr(v) /\ (IsIntText(v.s) \/ IsFloatText(v.s))
            THEN [err |-> "", v |-> V_Float(NumeralValue(v.s[1]))]
            ELSE [err |-> "type_error.float", v |-> V_None]

\* Faulty variant of str_validation that lacks the Object branch; C9 must not
\* hold of it.
str_validation_without_Object(v, type) ==
    IF ~IsStr(v) THEN [err |-> "", v |-> v]
    ELSE IF type = "FName"
    THEN IF \E i \in 1..Len(strip_dq(v.s)) : strip_dq(v.s)[i] = DQ
         THEN [err |-> "value_error", v |-> V_None]
         ELSE [err |-> "", v |-> V_FName(strip_dq(v.s))]
    ELSE [err |-> "", v |-> v]

\* InOutModel.str_validation, the validator of every field of an Input or
\* Output: a str becomes an FName or an Object according to the field's type.
str_validation(v, type) ==
    IF ~IsStr(v) THEN [err |-> "", v |-> v]
    ELSE IF type = "FName"
    THEN LET string == strip_dq(v.s)
         IN IF \E i \in 1..Len(string) : string[i] = DQ
            THEN [err |-> "value_error", v |-> V_None]
            ELSE [err |-> "", v |-> V_FName(string)]
    ELSE IF type \in ObjectClasses THEN [err |-> "", v |-> V_Object(type, v.s)]
    ELSE [err |-> "", v |-> v]

Missing == [tag |-> "missing"]

Lookup(d, k) == IF k \in DOMAIN d THEN d[k] ELSE Missing

\* The validators of a field run in order and stop at the first failure:
\* str_validation sees the value only if the type validation accepted it.
then_str_validation(t, type, validated) ==
    IF t.err # "" \/ ~validated THEN t ELSE str_validation(t.v, type)

\* What ModelField.validate returns: the value, or the error under the
\* field's name.
field_outcome(name, r) ==
    IF r.err # "" THEN [errs |-> <<Err(<<name>>, r.err)>>, v |-> V_None]
    ELSE [errs |-> <<>>, v |-> r.v]

\* ModelField.validate for a field of a primitive, FName or Object type;
\* validated says whether the model carries str_validation (an InOutModel).
\* An Optional field left out, or given None, is None.
validate_scalar(field, v, validated) ==
    IF v.tag \in {"missing", "none"}
    THEN IF field.optional THEN [errs |-> <<>>, v |-> V_None]
         ELSE field_outcome(field.name,
                  [err |-> IF v.tag = "missing" THEN "value_error.missing"
                           ELSE "type_error.none.not_allowed"])
    ELSE field_outcome(field.name,
             then_str_validation(type_validation(field.type, v), field.type,
                                 validated))

\* The errors of a sub-model, located under the field that holds it.
Under(name, errs) ==
    [i \in 1..Len(errs) |-> [errs[i] EXCEPT !.loc = <<name>> \o @]]

RECURSIVE ConcatAll(_)
ConcatAll(ss) == IF ss = <<>> THEN <<>> ELSE Head(ss) \o ConcatAll(Tail(ss))

\* What pydantic's validate_model returns from the outcomes r of the fields:
\* the errors of all fields in declaration order, and the values by name.
model_outcome(schema, r) ==
    [errs |-> ConcatAll([i \in 1..Len(schema) |-> r[i].errs]),
     v |-> [n \in FieldNames(schema) |->
              r[CHOOSE i \in 1..Len(schema) : schema[i].name = n].v]]

\* What BaseModel.validate returns for a mapping validated to m: the model, or
\* m's errors under the name of the field that holds the model.
submodel_outcome(name, m) ==
    IF m.errs # <<>> THEN [errs |-> Under(name, m.errs), v |-> V_None]
    ELSE [errs |-> <<>>, v |-> V_Model(m.v)]

\* A value given for a field whose type is a model is a mapping or a model.
not_a_mapping(name, v) ==
    IF v.tag = "model" THEN [errs |-> <<>>, v |-> v]
    ELSE field_outcome(name,
             [err |-> CASE v.tag = "missing" -> "value_error.missing"
                        [] v.tag = "none" -> "type_error.none.not_allowed"
                        [] OTHER -> "type_error.dict"])

\* The mixer field of CoupledClusterAlgo.Input: MixerModel is a BaseModel
\* without str_validation, whose fields are all primitive.
validate_mixer(field, v) ==
    IF v.tag # "dict" THEN not_a_mapping(field.name, v)
    ELSE submodel_outcome(field.name,
             model_outcome(MixerModel,
                 [i \in 1..Len(MixerModel) |->
                    validate_scalar(MixerModel[i],
                                    Lookup(v.d, MixerModel[i].name), FALSE)]))

\* ModelField.validate for a field of an Input or Output.
validate_field(field, v) ==
    IF field.type = "MixerModel" THEN validate_mixer(field, v)
    ELSE validate_scalar(field, v, TRUE)

\* pydantic's validate_model for an Input or Output schema: every field is
\* validated, in declaration order; keys that name no field are ignored.
validate_model(schema, d) ==
    model_outcome(schema,
        [i \in 1..Len(schema) |->
            validate_field(schema[i], Lookup(d, schema[i].name))])

-----------------------------------------------------------------------------
(* BaseAlgo: construction and attribute assignment *)

NoRecord == [cls |-> "None"]

\* The const validator of the name field: the value must equal the default.
constant_validator(cls, t) ==
    IF t.err # "" THEN field_outcome("name", t)
    ELSE IF t.v.s # name_default(cls)
    THEN [errs |-> <<[loc |-> <<"name">>, type |-> "value_error.const",
                      permitted |-> name_default(cls)]>>,
          v |-> V_None]
    ELSE [errs |-> <<>>, v |-> t.v]

\* The name field: Field(default=<algo_name>, const=True), a plain str field.
\* A name that is not given is the default, which is not validated.
validate_name(cls, v) ==
    IF v.tag = "missing" THEN [errs |-> <<>>, v |-> V_Str(name_default(cls))]
    ELSE IF v.tag = "none"
    THEN field_outcome("name", [err |-> "type_error.none.not_allowed"])
    ELSE constant_validator(cls, type_validation("str", v))

\* The input and output fields: their type is the class's Input / Output.
validate_io(name, v, schema) ==
    IF v.tag # "dict" THEN not_a_mapping(name, v)
    ELSE submodel_outcome(name, validate_model(schema, v.d))

\* get_object's outcome as destination_object hands it on: the Output with
\* its destination replaced, or the exception.
with_destination(v, g) ==
    IF g.exc # "none" THEN [exc |-> g.exc, warned |-> 0, v |-> v]
    ELSE [exc |-> "none", warned |-> g.warned,
          v |-> V_Model([v.d EXCEPT !.destination = g.obj])]

\* ReadAlgo.destination_object, the validator of ReadAlgo's output. values
\* holds the fields validated before output: input is among them only if it
\* was valid, and values["input"] raises KeyError otherwise.
destination_object(v, has_input, input) ==
    IF ~has_input THEN [exc |-> "KeyError", warned |-> 0, v |-> v]
    ELSE with_destination(v,
             get_object(input.d.fileName.s, v.d.destination.s,
                        input.d.object_type))

\* pydantic turns a ValueError of a validator into an error of the field and
\* lets any other exception through.
validator_outcome(d) ==
    IF d.exc = "ValueError"
    THEN [exc |-> "none", errs |-> <<Err(<<"output">>, "value_error")>>,
          warned |-> 0, v |-> V_None]
    ELSE [exc |-> d.exc, errs |-> <<>>, warned |-> d.warned, v |-> d.v]

\* The class validators of the output field run after its type validation
\* and only if that succeeded; ReadAlgo alone declares one.
post_validators(cls, o, has_input, input) ==
    IF cls # "ReadAlgo" \/ o.errs # <<>>
    THEN [exc |-> "none", errs |-> o.errs, warned |-> 0, v |-> o.v]
    ELSE validator_outcome(destination_object(o.v, has_input, input))

\* The validation of the output field.
validate_output(cls, v, has_input, input) ==
    post_validators(cls, validate_io("output", v, Output(cls)), has_input, input)

\* The end of BaseModel.__init__: the errors collected from the fields are
\* raised together as one ValidationError; an exception that is no
\* ValueError has left the validator that raised it at once.
raise_or_build(cls, n, i, o) ==
    IF o.exc # "none"
    THEN [exc |-> o.exc, errors |-> <<>>, warned |-> 0, rec |-> NoRecord]
    ELSE IF n.errs \o i.errs \o o.errs # <<>>
    THEN [exc |-> "ValidationError", errors |-> n.errs \o i.errs \o o.errs,
          warned |-> o.warned, rec |-> NoRecord]
    ELSE [exc |-> "none", errors |-> <<>>, warned |-> o.warned,
          rec |-> [cls |-> cls, name |-> n.v, input |-> i.v, output |-> o.v]]

\* Validation goes on after a field has failed: output is validated with the
\* values of the fields validated before it.
validate_after_input(cls, n, i, output) ==
    raise_or_build(cls, n, i, validate_output(cls, output, i.errs = <<>>, i.v))

\* cls(name=..., input=..., output=...): the fields are validated in the order
\* name, input, output.
BaseAlgo_init(cls, name, input, output) ==
    validate_after_input(cls, validate_name(cls, name),
                         validate_io("input", input, Input(cls)), output)

\* Faulty variant of allow_mutation, as if the name field were declared
\* without allow_mutation=False; C7 must not hold of it.
allow_mutation_everywhere(attr) == TRUE

\* Field(..., allow_mutation=False) is given to the name field only.
allow_mutation(attr) == attr # "name"

\* Faulty variant of assign_or_raise that updates the record before it
\* raises.
assign_despite_errors(self, attr, r) ==
    [exc |-> IF r.exc # "none" THEN r.exc
             ELSE IF r.errs # <<>> THEN "ValidationError" ELSE "none",
     errors |-> r.errs, warned |-> r.warned, rec |-> [self EXCEPT ![attr] = r.v]]

\* The end of __setattr__: the record is updated only if validation passed.
assign_or_raise(self, attr, r) ==
    IF r.exc # "none"
    THEN [exc |-> r.exc, errors |-> <<>>, warned |-> 0, rec |-> self]
    ELSE IF r.errs # <<>>
    THEN [exc |-> "ValidationError", errors |-> r.errs, warned |-> r.warned,
          rec |-> self]
    ELSE [exc |-> "none", errors |-> <<>>, warned |-> r.warned,
          rec |-> [self EXCEPT ![attr] = r.v]]

\* A field outcome with the exception and warning columns of validate_output.
no_exception(f) == [exc |-> "none", errs |-> f.errs, warned |-> 0, v |-> f.v]

\* BaseModel.__setattr__ under Config.validate_assignment = True: the field is
\* validated against the other fields' current values.
BaseAlgo_setattr(self, attr, value) ==
    IF attr \notin {"name", "input", "output"}
    THEN [exc |-> "ValueError", errors |-> <<>>, warned |-> 0, rec |-> self]
    ELSE IF ~allow_mutation(attr)
    THEN [exc |-> "TypeError", errors |-> <<>>, warned |-> 0, rec |-> self]
    ELSE assign_or_raise(self, attr,
             CASE attr = "name" -> no_exception(validate_name(self.cls, value))
               [] attr = "input" ->
                    no_exception(validate_io("input", value, Input(self.cls)))
               [] attr = "output" ->
                    validate_output(self.cls, value, TRUE, self.input))

\* BaseModel.__setattr__ of an Input or Output, whose Config is pydantic's
\* default: a name that is no field raises ValueError; a field takes the
\* value as it is given, without validation.
InOutModel_setattr(schema, m, attr, value) ==
    IF attr \notin FieldNames(schema) THEN [exc |-> "ValueError", v |-> m]
    ELSE [exc |-> "none", v |-> V_Model([m.d EXCEPT ![attr] = value])]

-----------------------------------------------------------------------------
(* dict(): the plain data of a record and of a CC4SIn *)

\* A Python dict as dict() builds it: its items in insertion order.
Item(k, v) == [key |-> k, value |-> v]

V_Items(items) == [tag |-> "items", items |-> items]

\* The keys of a mapping, given by its items or by its pairs of key and node.
KeysOf(items) == {items[i].key : i \in 1..Len(items)}

\* The value a mapping has for a key.
ValueOf(items, k) == (CHOOSE it \in {items[i] : i \in 1..Len(items)} : it.key = k).value

\* Field(repr=False, exclude=True) is given to ReadAlgo.Input.object_type only.
field_excluded(field) == field.name = "object_type"

\* BaseModel.dict() of a MixerModel: every field, None included.
MixerModel_dict(m) ==
    V_Items([i \in 1..Len(MixerModel) |->
                Item(MixerModel[i].name, m.d[MixerModel[i].name])])

\* The value dict() gives for a field: a sub-model becomes a dict, anything
\* else (an FName, an Object, a number, None) is kept as it is.
dict_value(v) == IF v.tag = "model" THEN MixerModel_dict(v) ELSE v

\* The fields dict() emits, in declaration order.
dict_fields(schema) == SelectSeq(schema, LAMBDA f : ~field_excluded(f))

\* BaseModel.dict() of an Input or Output.
InOutModel_dict(schema, m) ==
    V_Items([i \in 1..Len(dict_fields(schema)) |->
                Item(dict_fields(schema)[i].name,
                     dict_value(m.d[dict_fields(schema)[i].name]))])

\* dd[new] = dd.pop(old): the item leaves its place and is added at the end.
pop_as(dd, old, new) ==
    SelectSeq(dd, LAMBDA it : it.key # old)
    \o <<Item(new, (CHOOSE it \in {dd[i] : i \in 1..Len(dd)} : it.key = old).value)>>

\* pydantic's dict() of a BaseAlgo, before the keys are renamed.
BaseModel_dict(self) ==
    << Item("name", self.name),
       Item("input", InOutModel_dict(Input(self.cls), self.input)),
       Item("output", InOutModel_dict(Output(self.cls), self.output)) >>

\* Faulty variant of BaseAlgo_dict that keeps the keys input and output.
BaseAlgo_dict_without_renaming(self) == V_Items(BaseModel_dict(self))

\* BaseAlgo.dict.
BaseAlgo_dict(self) ==
    V_Items(pop_as(pop_as(BaseModel_dict(self), "input", "in"), "output", "out"))

\* The dict that dict() returns, as the raw mapping a constructor or get_algo
\* is given: the same keys and values, without the order of the keys.
RECURSIVE as_mapping(_)
as_mapping(v) ==
    IF v.tag # "items" THEN v
    ELSE V_Dict([k \in KeysOf(v.items) |-> as_mapping(ValueOf(v.items, k))])

NoProgram == [ok |-> FALSE]

\* CC4SIn(algos=algos), for a list of records.
CC4SIn_init(algos) == [ok |-> TRUE, algos |-> algos]

\* CC4SIn.dict: the list of the dicts of the algos.
CC4SIn_dict(self) == [i \in 1..Len(self.algos) |-> BaseAlgo_dict(self.algos[i])]

\* == on the values dict() holds.  An Object equals only an Object
\* (Object.__eq__, which Python also calls when the Object is the right
\* operand of a str); other strings compare by their text, numbers by their
\* value, dicts key by key.
RECURSIVE py_eq(_, _)
py_eq(a, b) ==
    CASE a.tag = "items" /\ b.tag = "items" ->
            /\ {a.items[i].key : i \in 1..Len(a.items)}
                  = {b.items[i].key : i \in 1..Len(b.items)}
            /\ \A i \in 1..Len(a.items) : \A j \in 1..Len(b.items) :
                  a.items[i].key = b.items[j].key
                      => py_eq(a.items[i].value, b.items[j].value)
      [] a.tag = "items" \/ b.tag = "items" -> FALSE
      [] a.tag = "Object" \/ b.tag = "Object" ->
            a.tag = b.tag /\ Object_eq(a, b)
      [] IsStr(a) /\ IsStr(b) -> a.s = b.s
      [] a.tag \in {"int", "float"} /\ b.tag \in {"int", "float"} -> a.n = b.n
      [] OTHER -> a.tag = b.tag

\* BaseModel.__eq__ on two CC4SIn: self.dict() == other.dict().
CC4SIn_eq(self, other) ==
    /\ Len(self.algos) = Len(other.algos)
    /\ \A i \in 1..Len(self.algos) :
          py_eq(CC4SIn_dict(self)[i], CC4SIn_dict(other)[i])

V_List(l) == [tag |-> "list", l |-> l]

\* dict(self.input), dict(self.output): BaseModel.__iter__ yields every field
\* of the model with its value as it is.
InOutModel_iter(schema, m) ==
    V_Items([i \in 1..Len(schema) |-> Item(schema[i].name, m.d[schema[i].name])])

\* BaseAlgo.as_dict.  version is str(pycc4s.__version__), or None if the
\* package has none.
BaseAlgo_as_dict(self, version) ==
    V_Items(<< Item("@module", V_Str(<<"pycc4s", DOT, "core", DOT, "algorithms">>)),
               Item("@class", V_Str(<<self.cls>>)),
               Item("@version", version),
               Item("name", self.name),
               Item("in", InOutModel_iter(Input(self.cls), self.input)),
               Item("out", InOutModel_iter(Output(self.cls), self.output)) >>)

\* CC4SIn.as_dict.
CC4SIn_as_dict(self, version) ==
    V_Items(<< Item("@module", V_Str(<<"pycc4s", DOT, "core", DOT, "inputs">>)),
               Item("@class", V_Str(<<"CC4SIn">>)),
               Item("@version", version),
               Item("algos", V_List([i \in 1..Len(self.algos) |->
                                        BaseAlgo_as_dict(self.algos[i], version)])) >>)

\* cc4sin.validate().  CC4SIn defines no validate, so the name is pydantic's
\* classmethod BaseModel.validate(cls, value): called on an instance with no
\* argument it has no value and raises TypeError, whatever the CC4SIn holds.
CC4SIn_validate(self) == [exc |-> "TypeError"]

-----------------------------------------------------------------------------
(* The YAML document: yaml.dump with MyDumper, yaml.safe_load *)

\* A document is the sequence of its records' nodes.  A scalar node has a
\* style (plain, single-quoted or double-quoted) and a text; a mapping node
\* has its (key, node) pairs in order.
Scalar(style, s) == [kind |-> "scalar", style |-> style, s |-> s]

Mapping(items) == [kind |-> "mapping", items |-> items]

NoDoc == [ok |-> FALSE]

\* YAML's implicit resolution of a plain scalar.
resolve(s) ==
    CASE s = <<>> \/ s = <<"null">> -> "null"
      [] IsIntText(s) -> "int"
      [] IsFloatText(s) -> "float"
      [] OTHER -> "str"

\* Faulty variant of choose_scalar_style that writes every str plain.
choose_scalar_style_always_plain(s) == "plain"

\* The emitter writes a str plain if no style is asked for, if the plain text
\* would be read back as a str and if it starts with no indicator character;
\* it quotes the text otherwise.
choose_scalar_style(s) ==
    IF resolve(s) = "str" /\ Head(s) # DQ THEN "plain" ELSE "single"

\* MyDumper.represent_data: an FName is written in double quotes, an Object
\* and every other value as yaml.Dumper writes them.
RECURSIVE represent_data(_)
represent_data(data) ==
    CASE data.tag = "FName" -> Scalar("double", data.s)
      [] data.tag \in {"Object", "str"} ->
            Scalar(choose_scalar_style(data.s), data.s)
      [] data.tag = "none" -> Scalar("plain", <<"null">>)
      [] data.tag \in {"int", "float"} -> Scalar("plain", str_of_number(data))
      [] data.tag = "items" ->
            Mapping([i \in 1..Len(data.items) |->
                        [key |-> data.items[i].key,
                         node |-> represent_data(data.items[i].value)]])

\* yaml.dump(self.dict(), f, Dumper=MyDumper, sort_keys=False) in to_file.
CC4SIn_to_file(self) ==
    [ok |-> TRUE,
     nodes |-> [i \in 1..Len(self.algos) |-> represent_data(CC4SIn_dict(self)[i])]]

\* The node of the last pair of a mapping that has the key.
node_of(items, k) ==
    items[CHOOSE i \in 1..Len(items) :
              /\ items[i].key = k
              /\ \A j \in (i + 1)..Len(items) : items[j].key # k].node

\* SafeConstructor: a quoted scalar is a str, a plain scalar is what it
\* resolves to, a mapping is a dict.
RECURSIVE construct_object(_)
construct_object(node) ==
    IF node.kind = "mapping"
    THEN V_Dict([k \in {node.items[i].key : i \in 1..Len(node.items)} |->
                    construct_object(node_of(node.items, k))])
    ELSE IF node.style # "plain" THEN V_Str(node.s)
    ELSE CASE resolve(node.s) = "null" -> V_None
           [] resolve(node.s) = "int" -> V_Int(NumeralValue(node.s[1]))
           [] resolve(node.s) = "float" -> V_Float(NumeralValue(node.s[1]))
           [] OTHER -> V_Str(node.s)

\* yaml.safe_load(f) in from_file: the list of the records' dicts.
yaml_safe_load(d) == [i \in 1..Len(d.nodes) |-> construct_object(d.nodes[i])]

-----------------------------------------------------------------------------
(* get_algo and CC4SIn.from_file *)

raised(exc) == [exc |-> exc, errors |-> <<>>, warned |-> 0, rec |-> NoRecord]

\* get_algo(d): d["name"], d["in"] and d["out"] raise KeyError for a key d
\* lacks, and so does _ALGOS[...] for a name that is no algorithm's.
get_algo(d) ==
    IF d.tag # "dict" THEN raised("TypeError")
    ELSE IF "name" \notin DOMAIN d.d THEN raised("KeyError")
    ELSE IF d.d.name.tag = "dict" THEN raised("TypeError")
    ELSE IF ~(d.d.name.tag = "str" /\ Len(d.d.name.s) = 1
              /\ d.d.name.s[1] \in DOMAIN _ALGOS)
    THEN raised("KeyError")
    ELSE IF "in" \notin DOMAIN d.d \/ "out" \notin DOMAIN d.d
    THEN raised("KeyError")
    ELSE BaseAlgo_init(_ALGOS[d.d.name.s[1]], d.d.name, d.d["in"], d.d.out)

RECURSIVE get_algos(_, _, _)

\* Faulty variant of next_algo that puts the record in front of the list.
next_algo_in_front(dd, i, acc, a) ==
    IF a.exc # "none"
    THEN [exc |-> a.exc, errors |-> a.errors, warned |-> acc.warned + a.warned,
          algos |-> <<>>, visited |-> i]
    ELSE get_algos(dd, i + 1,
                   [acc EXCEPT !.algos = <<a.rec>> \o @, !.warned = @ + a.warned,
                               !.visited = i])

\* Faulty variant of next_algo that leaves an invalid record out and goes on.
next_algo_skips_invalid(dd, i, acc, a) ==
    IF a.exc # "none"
    THEN get_algos(dd, i + 1, [acc EXCEPT !.warned = @ + a.warned, !.visited = i])
    ELSE get_algos(dd, i + 1,
                   [acc EXCEPT !.algos = Append(@, a.rec), !.warned = @ + a.warned,
                               !.visited = i])

\* One step of the list comprehension: the outcome a of get_algo(dd[i]) ends
\* the comprehension if it is an exception, and is appended otherwise.
next_algo(dd, i, acc, a) ==
    IF a.exc # "none"
    THEN [exc |-> a.exc, errors |-> a.errors, warned |-> acc.warned + a.warned,
          algos |-> <<>>, visited |-> i]
    ELSE get_algos(dd, i + 1,
                   [acc EXCEPT !.algos = Append(@, a.rec), !.warned = @ + a.warned,
                               !.visited = i])

\* [get_algo(algo_d) for algo_d in dd], from the i-th element on; visited
\* counts the calls of get_algo.
get_algos(dd, i, acc) ==
    IF i > Len(dd) THEN acc ELSE next_algo(dd, i, acc, get_algo(dd[i]))

\* return cls(algos=algos), reached only if the comprehension raised nothing.
return_CC4SIn(r) ==
    [op |-> "from_file", exc |-> r.exc, errors |-> r.errors, warned |-> r.warned,
     visited |-> r.visited,
     prog |-> IF r.exc = "none" THEN CC4SIn_init(r.algos) ELSE NoProgram]

\* CC4SIn.from_file on a file that holds document d.
CC4SIn_from_file(d) ==
    return_CC4SIn(get_algos(yaml_safe_load(d), 1,
                            [exc |-> "none", errors |-> <<>>, warned |-> 0,
                             algos |-> <<>>, visited |-> 0]))

-----------------------------------------------------------------------------
(* The raw arguments the client passes *)

Put(d, k, v) == [x \in DOMAIN d \cup {k} |-> IF x = k THEN v ELSE d[x]]

Drop(d, k) == [x \in DOMAIN d \ {k} |-> d[x]]

EmptyDict == [x \in {} |-> V_None]

FileTokens == {SEP, DOT, DQ, "CoulombVertex", "yaml"}

\* The fileNames given to ReadAlgo: every string of up to MaxFileNameLen
\* tokens, and the conventional names <key>.yaml, bare and under a directory.
FileNames ==
    SeqsUpTo(FileTokens, MaxFileNameLen)
    \cup {<<k, DOT, "yaml">> : k \in DOMAIN _OBJECTS}
    \cup {<<"in", SEP, k, DOT, "yaml">> : k \in DOMAIN _OBJECTS}
    \cup {<<"CoulombVertex", "2", DOT, "yaml">>,
          <<"CoulombVertex", DOT, "tar", DOT, "yaml">>,
          <<DQ, "CoulombVertex", DOT, "yaml", DQ>>}

Hints ==
    {Missing, V_None, V_Str(<<"CoulombVertex">>), V_Str(<<"CoulombIntegrals">>),
     V_Str(<<"DeltaIntegralsHH">>), V_Str(<<"NoSuchObject">>)}

\* The raw values tried for a field.
RawValues ==
    {Missing, V_None, V_Str(<<"tada">>), V_Str(<<"CoulombVertex">>),
     V_Str(<<"100">>), V_Str(<<>>), V_Str(<<"ta", DQ, "da">>), V_Int(100),
     V_Float(4), V_Dict(EmptyDict),
     V_Dict([type |-> V_Str(<<"DiisMixer">>), maxResidua |-> V_Str(<<"tada">>)])}

DefaultMixer == V_Dict([type |-> V_Str(<<"DiisMixer">>), maxResidua |-> V_Int(4)])

\* A raw value that fits a field of the given type.
DefaultValue(field) ==
    CASE field.type = "FName" -> V_Str(<<"CoulombVertex", DOT, "yaml">>)
      [] field.type = "str" -> V_Str(<<"tada">>)
      [] field.type = "int" -> V_Int(100)
      [] field.type = "float" -> V_Float(4)
      [] field.type = "MixerModel" -> DefaultMixer
      [] OTHER -> V_Str(<<field.type>>)

\* A raw mapping that gives every required field of the schema a fitting value.
DefaultDict(schema) ==
    LET required == {i \in 1..Len(schema) : ~schema[i].optional}
    IN V_Dict([n \in {schema[i].name : i \in required} |->
                 DefaultValue(schema[CHOOSE i \in required : schema[i].name = n])])

\* The default mapping with one field given another value, or left out.
OneFieldChanged(schema) ==
    {DefaultDict(schema)}
    \cup {V_Dict(IF v = Missing THEN Drop(DefaultDict(schema).d, schema[i].name)
                 ELSE Put(DefaultDict(schema).d, schema[i].name, v)) :
            i \in 1..Len(schema), v \in RawValues}

NameValues ==
    {Missing, V_None, V_Str(<<"somename">>), V_Str(<<>>)}
    \cup {V_Str(<<algo_name(c)>>) : c \in AlgoClasses}

ReadInputs ==
    {V_Dict(IF h = Missing THEN [fileName |-> V_Str(f)]
            ELSE [fileName |-> V_Str(f), object_type |-> h]) :
        f \in FileNames, h \in Hints}

\* The calls cls(name=, input=, output=) the client makes.
RawCalls(cls) ==
    LET dflt == [name |-> Missing, input |-> DefaultDict(Input(cls)),
                 output |-> DefaultDict(Output(cls))]
    IN {[dflt EXCEPT !.name = n] : n \in NameValues}
       \cup {[dflt EXCEPT !.name = n, !.input = i] :
                n \in {Missing, V_Str(<<"somename">>)},
                i \in OneFieldChanged(Input(cls)) \cup {Missing, V_Str(<<"tada">>)}}
       \cup {[dflt EXCEPT !.output = o] :
                o \in OneFieldChanged(Output(cls)) \cup {Missing, V_Str(<<"tada">>)}}
       \cup IF cls # "ReadAlgo" THEN {}
            ELSE {[name |-> n, input |-> i, output |-> o] :
                    n \in {Missing, V_Str(<<"somename">>)},
                    i \in ReadInputs,
                    o \in {V_Dict([destination |-> V_Str(<<"tada">>)]),
                           V_Dict(EmptyDict)}}

\* The attributes the client assigns to: the three fields and a name that is
\* no field.
AttrNames == {"name", "input", "output", "destination"}

\* The values the client assigns to attributes of the record it holds.
AssignedValues(cls, attr) ==
    CASE attr = "name" -> {V_Str(<<algo_name(cls)>>), V_Str(<<"somename">>)}
      [] attr = "input" ->
            {DefaultDict(Input(cls)), V_Dict(EmptyDict)}
            \cup IF cls # "ReadAlgo" THEN {}
                 ELSE {V_Dict([fileName |-> V_Str(<<"EigenEnergies", DOT, "yaml">>)]),
                       V_Dict([fileName |-> V_Str(<<"tada">>)])}
      [] attr = "output" ->
            {DefaultDict(Output(cls)), V_Str(<<"tada">>)}
            \cup IF cls # "ReadAlgo" THEN {}
                 ELSE {V_Dict([destination |-> V_Str(<<"other">>)])}
      [] OTHER -> {V_Str(<<"tada">>)}

-----------------------------------------------------------------------------
(* The definition of algorithm classes and the registry _ALGOS *)

\* A class name is spelled as a sequence of tokens; the token Algo is the
\* four characters that __init_subclass__ looks for.
ClassName(cls) == <<algo_name(cls), "Algo">>

\* The classes of algorithms.py, in the order of their definition.
ModuleClasses ==
    << "ReadAlgo", "WriteAlgo", "DefineHolesAndParticlesAlgo", "SliceOperatorAlgo",
       "VertexCoulombIntegralsAlgo", "CoupledClusterAlgo",
       "FiniteSizeCorrectionAlgo", "BasisSetCorrectionAlgo",
       "PerturbativeTriplesAlgo", "SecondOrderPerturbationTheoryAlgo" >>

\* BaseAlgo as a class: name has the default "", input and output are typed
\* BaseModel.
BaseAlgoClass ==
    [name |-> <<"Base", "Algo">>, base |-> 0, default |-> <<>>,
     input |-> 0, output |-> 0]

\* The class the index stands for: 0 is BaseAlgo, i > 0 the i-th class that
\* was derived from it.
class_at(defined, i) == IF i = 0 THEN BaseAlgoClass ELSE defined[i]

\* A class statement, up to the call of __init_subclass__: the new class has
\* copies of the fields of its base (pydantic copies them, so that the
\* base's fields are not shared).  input and output name the class whose
\* Input and Output type the field (0: plain BaseModel).
inherit_fields(defined, cls_name, base) ==
    [name |-> cls_name, base |-> base,
     default |-> class_at(defined, base).default,
     input |-> class_at(defined, base).input,
     output |-> class_at(defined, base).output]

\* hasattr(cls, "Input"): the class has an Input of its own or inherits one.
has_io(cls, own_io) == own_io \/ cls.input # 0

\* BaseAlgo.__init_subclass__ for the class that becomes number i: the
\* input and output fields are typed by cls.Input and cls.Output, the class
\* name must end with Algo, the default of name is the class name without it.
init_subclass(cls, i, own_io) ==
    IF cls.name = <<>> \/ cls.name[Len(cls.name)] # "Algo"
    THEN [exc |-> "NameError", cls |-> cls]
    ELSE [exc |-> "none",
          cls |-> [cls EXCEPT
                      !.input = IF own_io THEN i ELSE @,
                      !.output = IF own_io THEN i ELSE @,
                      !.default = SubSeq(cls.name, 1, Len(cls.name) - 1)]]

\* The class statement: the class exists if __init_subclass__ raised nothing.
class_statement(defined, cls_name, base, own_io) ==
    init_subclass(inherit_fields(defined, cls_name, base), Len(defined) + 1,
                  has_io(inherit_fields(defined, cls_name, base), own_io))

\* BaseAlgo.__subclasses__(): the classes derived directly from BaseAlgo.
subclasses(defined) == SelectSeq([i \in 1..Len(defined) |-> i],
                                 LAMBDA i : defined[i].base = 0)

\* The dict comprehension that builds _ALGOS: a later class takes the key of
\* an earlier one with the same default.
build_ALGOS(defined) ==
    [k \in {defined[i].default : i \in {subclasses(defined)[j] :
                                          j \in 1..Len(subclasses(defined))}} |->
        CHOOSE i \in 1..Len(defined) :
            /\ defined[i].base = 0 /\ defined[i].default = k
            /\ \A j \in (i + 1)..Len(defined) :
                  ~(defined[j].base = 0 /\ defined[j].default = k)]

\* The classes of algorithms.py, defined one after the other.
RECURSIVE module_classes(_)
module_classes(n) ==
    IF n = 0 THEN <<>>
    ELSE Append(module_classes(n - 1),
                class_statement(module_classes(n - 1),
                                ClassName(ModuleClasses[n]), 0, TRUE).cls)

\* The classes and the registry once algorithms.py is imported.
imported ==
    [defined |-> module_classes(Len(ModuleClasses)),
     registry |-> build_ALGOS(module_classes(Len(ModuleClasses))),
     last |-> [op |-> "none"]]

-----------------------------------------------------------------------------
(* pathlib.PurePosixPath values, as objects.py and workflows/sets/base.py
   build them.  A path is its root flag and its components; paths are equal
   when both are.  No path of the model starts with exactly two separators. *)

Path(s) == [root |-> s # <<>> /\ s[1] = SEP, parts |-> PathParts(s)]

\* Path.parent: the path without its last component; a path without
\* components is its own parent.
Path_parent(p) ==
    IF p.parts = <<>> THEN p
    ELSE [p EXCEPT !.parts = SubSeq(p.parts, 1, Len(p.parts) - 1)]

\* p / s for a string s: an absolute s replaces p.
Path_truediv(p, s) ==
    IF s # <<>> /\ s[1] = SEP THEN Path(s)
    ELSE [p EXCEPT !.parts = p.parts \o PathParts(s)]

\* str(p): the components joined by separators, "." for the empty path.
RECURSIVE JoinSep(_)
JoinSep(parts) ==
    IF Len(parts) = 1 THEN parts[1]
    ELSE parts[1] \o <<SEP>> \o JoinSep(Tail(parts))

Path_str(p) ==
    IF p.parts = <<>> THEN (IF p.root THEN <<SEP>> ELSE <<DOT>>)
    ELSE (IF p.root THEN <<SEP>> ELSE <<>>) \o JoinSep(p.parts)

-----------------------------------------------------------------------------
(* The Object classes of objects.py: how each is stored on file *)

FileObjectClasses == ObjectClasses \cup {"ResultDict"}

Hp == <<"h", "p">>

\* ".components.{}.elements".format(c)
components_ext(c) == <<DOT, "components", DOT, c, DOT, "elements">>

Object_ext(cls) == <<DOT, "yaml">>

\* cls.elements_files_exts, in the order of the tuple; the None of
\* ResultDict is the empty sequence, which is falsy as None is.
elements_files_exts(cls) ==
    CASE cls = "Amplitudes" ->
            <<components_ext("ph"), components_ext("pphh")>>
      [] cls = "CoulombIntegrals" ->
            [i \in 1..16 |->
                components_ext(Hp[(((i - 1) \div 8) % 2) + 1]
                               \o Hp[(((i - 1) \div 4) % 2) + 1]
                               \o Hp[(((i - 1) \div 2) % 2) + 1]
                               \o Hp[((i - 1) % 2) + 1])]
      [] cls = "SlicedCoulombVertex" ->
            [i \in 1..4 |->
                components_ext(Hp[(((i - 1) \div 2) % 2) + 1]
                               \o Hp[((i - 1) % 2) + 1])]
      [] cls = "SlicedEigenEnergies" ->
            [i \in 1..2 |-> components_ext(Hp[i])]
      [] cls = "ResultDict" -> <<>>
      [] OTHER -> <<<<DOT, "elements">>>>

\* cls.additional_filenames, None being the empty sequence.
additional_filenames(cls) ==
    CASE cls \in {"CoulombPotential", "GridVectors"} ->
            <<<<"Momentum", DOT, "yaml">>>>
      [] cls = "CoulombVertex" ->
            <<<<"State", DOT, "yaml">>, <<"AuxiliaryField", DOT, "yaml">>>>
      [] cls = "CoulombVertexSingularVectors" ->
            <<<<"Momentum", DOT, "yaml">>, <<"AuxiliaryField", DOT, "yaml">>>>
      [] cls \in {"DeltaIntegrals", "EigenEnergies", "Mp2PairEnergies"} ->
            <<<<"State", DOT, "yaml">>>>
      [] OTHER -> <<>>

\* A base-name argument: a str, a tuple of str, or a value of another type.
StrArg(s) == [t |-> "str", s |-> s]
TupleArg(items) == [t |-> "tuple", items |-> items]
OtherArg == [t |-> "Path"]

Range(f) == {f[i] : i \in DOMAIN f}

\* Faulty variant of elements_files that gives every class the extension of
\* Object; C23 must not hold of it.
elements_files_of_Object(cls, basename) ==
    IF basename.t = "str"
    THEN [exc |-> "none", value |-> {Path(basename.s \o <<DOT, "elements">>)}]
    ELSE IF basename.t = "tuple"
    THEN [exc |-> "none",
          value |-> {[i \in DOMAIN basename.items |->
                         Path(basename.items[i] \o <<DOT, "elements">>)]}]
    ELSE [exc |-> "RuntimeError", value |-> {}]

\* Object.elements_files(basename): the set of paths, or of tuples of paths.
elements_files(cls, basename) ==
    IF elements_files_exts(cls) = <<>> THEN [exc |-> "none", value |-> {}]
    ELSE IF basename.t = "str"
    THEN [exc |-> "none",
          value |-> {Path(basename.s \o ext) :
                        ext \in Range(elements_files_exts(cls))}]
    ELSE IF basename.t = "tuple"
    THEN [exc |-> "none",
          value |-> {[i \in DOMAIN basename.items |->
                         Path(basename.items[i] \o ext)] :
                        ext \in Range(elements_files_exts(cls))}]
    ELSE [exc |-> "RuntimeError", value |-> {}]

\* Faulty variant of additional_files that puts the files next to the current
\* directory; C24 must not hold of it.
additional_files_in_cwd(cls, basename) ==
    IF additional_filenames(cls) = <<>>
    THEN [exc |-> "none", none |-> FALSE, value |-> {}]
    ELSE IF basename.t = "str"
    THEN [exc |-> "none", none |-> FALSE,
          value |-> {Path(file) : file \in Range(additional_filenames(cls))}]
    ELSE IF basename.t = "tuple"
    THEN [exc |-> "none", none |-> FALSE,
          value |-> {[i \in DOMAIN basename.items |-> Path(file)] :
                        file \in Range(additional_filenames(cls))}]
    ELSE [exc |-> "none", none |-> TRUE, value |-> {}]

\* Object.additional_files(basename); an argument of another type falls
\* through both branches and the call returns None.
additional_files(cls, basename) ==
    IF additional_filenames(cls) = <<>>
    THEN [exc |-> "none", none |-> FALSE, value |-> {}]
    ELSE IF basename.t = "str"
    THEN [exc |-> "none", none |-> FALSE,
          value |-> {Path_truediv(Path_parent(Path(basename.s)), file) :
                        file \in Range(additional_filenames(cls))}]
    ELSE IF basename.t = "tuple"
    THEN [exc |-> "none", none |-> FALSE,
          value |-> {[i \in DOMAIN basename.items |->
                         Path_truediv(Path_parent(Path(basename.items[i])),
                                      file)] :
                        file \in Range(additional_filenames(cls))}]
    ELSE [exc |-> "none", none |-> TRUE, value |-> {}]

\* The base names client code passes.
Basenames ==
    { StrArg(<<"ci">>), StrArg(<<"in", SEP, "Mybase">>),
      StrArg(<<SEP, "data", SEP, "run", SEP, "ci">>),
      StrArg(<<DOT, SEP, "ci">>),
      TupleArg(<<<<"prev">>, <<"ci">>>>),
      TupleArg(<<<<"prevdir", SEP, "Some">>, <<"in", SEP, "ci">>>>),
      OtherArg }

EmptyDir == <<>>

-----------------------------------------------------------------------------
(* workflows/sets/base.py: _object_dir_basename *)

\* name.lstrip(".")
RECURSIVE lstrip_dots(_)
lstrip_dots(name) ==
    IF name # <<>> /\ name[1] = DOT THEN lstrip_dots(Tail(name)) ELSE name

\* s.split("."): the runs between dots, in order.
RECURSIVE SplitDot(_, _, _)
SplitDot(s, i, cur) ==
    IF i > Len(s) THEN <<cur>>
    ELSE IF s[i] = DOT THEN <<cur>> \o SplitDot(s, i + 1, <<>>)
    ELSE SplitDot(s, i + 1, Append(cur, s[i]))

\* Path.suffixes of a path named name: none if the name ends with a dot,
\* else "." + piece for every piece after the first of the name without its
\* leading dots.
Path_suffixes(name) ==
    IF name # <<>> /\ name[Len(name)] = DOT THEN <<>>
    ELSE [i \in 1..(Len(SplitDot(lstrip_dots(name), 1, <<>>)) - 1) |->
             <<DOT>> \o SplitDot(lstrip_dots(name), 1, <<>>)[i + 1]]

\* Path.stem of a path named name: the name without its suffix.
Path_stem(name) ==
    IF SuffixStart(name) = 0 THEN name
    ELSE SubSeq(name, 1, SuffixStart(name) - 1)

\* Faulty variant of _object_dir_basename that accepts any single suffix; C26
\* must not hold of it.
object_dir_basename_any_suffix(fpath) ==
    IF Path_name(fpath) = <<>>
       \/ Path_name(fpath)[Len(Path_name(fpath))] = DOT
       \/ Len(Path_suffixes(Path_name(fpath))) > 1
    THEN [exc |-> "ValueError", dir |-> Path(<<>>), base |-> <<>>]
    ELSE [exc |-> "none", dir |-> Path_parent(Path(fpath)),
          base |-> Path_stem(Path_stem(Path_name(fpath)))]

\* _object_dir_basename(fpath): the directory and the base name of an object
\* file path.  with_suffix("") raises ValueError on a path without a name.
_object_dir_basename(fpath) ==
    IF Path_name(fpath) # <<>> /\ Path_name(fpath)[Len(Path_name(fpath))] = DOT
    THEN [exc |-> "ValueError", dir |-> Path(<<>>), base |-> <<>>]
    ELSE IF Path_name(fpath) = <<>>
    THEN [exc |-> "ValueError", dir |-> Path(<<>>), base |-> <<>>]
    ELSE IF Path_stem(Path_name(fpath)) = Path_name(fpath)
    THEN [exc |-> "none", dir |-> Path_parent(Path(fpath)),
          base |-> Path_stem(Path_name(fpath))]
    ELSE IF Len(Path_suffixes(Path_name(fpath))) # 1
    THEN [exc |-> "ValueError", dir |-> Path(<<>>), base |-> <<>>]
    ELSE IF Path_suffixes(Path_name(fpath))[1]
               \notin {<<DOT, "yaml">>, <<DOT, "elements">>}
    THEN [exc |-> "ValueError", dir |-> Path(<<>>), base |-> <<>>]
    ELSE [exc |-> "none", dir |-> Path_parent(Path(fpath)),
          base |-> Path_stem(Path_stem(Path_name(fpath)))]

\* The object file paths client code passes: a directory or none, a base
\* name, and what follows the base name.
ObjectDirs ==
    { <<>>, <<"d", SEP>>, <<"a", SEP, "b", SEP>>, <<"prevdir", SEP>>,
      <<SEP, "data", SEP, "run", SEP>> }

ObjectBases ==
    { <<"c">>, <<"CoulombVertex">>, <<"SomeCoulombVertex">>,
      <<"EigenEnergies">>, <<DOT, "hidden">> }

ObjectEndings ==
    { <<>>, <<DOT, "yaml">>, <<DOT, "elements">>, <<DOT>>, <<DOT, "yml">>,
      <<DOT, "yaml", DOT, "tar", DOT, "gz">>, <<DOT, DOT, "yaml">> }

ObjectPaths ==
    { d \o b \o e : d \in ObjectDirs, b \in ObjectBases, e \in ObjectEndings }
    \cup { <<>>, <<"d", SEP>> }

-----------------------------------------------------------------------------
(* workflows/sets/base.py: copy_or_link_objects and the file client *)

MaxEntries == 2   \* entries of the mapping given to copy_or_link_objects

\* The working directory, which makes relative paths absolute.
Cwd == Path(<<SEP, "work">>)

\* file_client.abspath(p) and Path.absolute().
abspath(p) ==
    IF p.root THEN p ELSE [root |-> TRUE, parts |-> Cwd.parts \o p.parts]

\* Path(p, q) for a path q: an absolute q replaces p.
Path_joinpath(p, q) ==
    IF q.root THEN q ELSE [p EXCEPT !.parts = p.parts \o q.parts]

\* p.with_suffix(suffix) for a path p that has a name.
Path_with_suffix(p, suffix) ==
    [p EXCEPT !.parts[Len(p.parts)] = Path_stem(@) \o suffix]

\* The elements of a set in the order a loop visits them.
RECURSIVE SetToSeq(_)
SetToSeq(S) ==
    IF S = {} THEN <<>>
    ELSE <<CHOOSE x \in S : TRUE>>
         \o SetToSeq(S \ {CHOOSE x \in S : TRUE})

\* A (source, destination) pair of base.py 193-196 and 203-206 from a pair
\* of relative paths.
src_dest(prev_dir, dest_dir, pair) ==
    [src |-> abspath(Path_joinpath(prev_dir, pair[1])),
     dst |-> abspath(Path_joinpath(dest_dir, pair[2]))]

\* src_dest_files of one entry: the main file, the tensor component files
\* and the additional files, for the split source path prev and the split
\* destination name input.
src_dest_files(obj_cls, prev, input, dest_dir) ==
    <<[src |-> abspath(Path_with_suffix(Path_truediv(prev.dir, prev.base),
                                        Object_ext(obj_cls))),
       dst |-> Path_with_suffix(abspath(Path_truediv(dest_dir, input.base)),
                                Object_ext(obj_cls))]>>
    \o [k \in 1..Cardinality(
                elements_files(obj_cls,
                               TupleArg(<<prev.base, input.base>>)).value) |->
           src_dest(prev.dir, dest_dir,
                    SetToSeq(elements_files(obj_cls,
                        TupleArg(<<prev.base, input.base>>)).value)[k])]
    \o [k \in 1..Cardinality(
                additional_files(obj_cls,
                                 TupleArg(<<prev.base, input.base>>)).value) |->
           src_dest(prev.dir, dest_dir,
                    SetToSeq(additional_files(obj_cls,
                        TupleArg(<<prev.base, input.base>>)).value)[k])]

\* The directory dir with file path written as entry, whatever was there.
WriteFile(dir, path, entry) ==
    [p \in DOMAIN dir \cup {path} |-> IF p = path THEN entry ELSE dir[p]]

\* FileClient.link(src, dst): a symlink at dst to src; an existing dst is
\* removed first (EEXIST).
FileClient_link(dir, src, dst) ==
    WriteFile(dir, dst, [kind |-> "symlink", src |-> src, host |-> "None"])

\* Faulty variant of FileClient_copy that links; C25_UnsharedDestinations
\* must not hold of it.
FileClient_copy_links(dir, src, dst, src_host) ==
    WriteFile(dir, dst, [kind |-> "symlink", src |-> src, host |-> src_host])

\* file_client.copy(src, dst, src_host): a copy at dst of src on src_host,
\* over what dst held.
FileClient_copy(dir, src, dst, src_host) ==
    WriteFile(dir, dst, [kind |-> "copy", src |-> src, host |-> src_host])

\* The loop of base.py 210-214 over the pairs of one entry, from pair k on.
RECURSIVE transfer(_, _, _, _, _)
transfer(dir, pairs, k, src_host, link_files) ==
    IF k > Len(pairs) THEN dir
    ELSE transfer(IF link_files /\ src_host = "None"
                  THEN FileClient_link(dir, pairs[k].src, pairs[k].dst)
                  ELSE FileClient_copy(dir, pairs[k].src, pairs[k].dst,
                                       src_host),
                  pairs, k + 1, src_host, link_files)

\* Whether entry e of the mapping passes the checks of base.py 175-180.
entry_accepted(e) ==
    /\ _object_dir_basename(e.prev_file).exc = "none"
    /\ _object_dir_basename(e.input_file).exc = "none"
    /\ _object_dir_basename(e.input_file).dir = Path(<<DOT>>)

\* copy_or_link_objects from entry i on: the directory it leaves, the
\* exception it raises if any, and the history of what each entry wrote.
\* copy_or_link_entry is the body of the loop for an accepted entry whose
\* src_dest_files are pairs.
RECURSIVE copy_or_link_from(_, _, _, _, _, _, _)
copy_or_link_entry(files, i, src_host, dest_dir, link_files, dir, log, pairs) ==
    copy_or_link_from(files, i + 1, src_host, dest_dir, link_files,
                      transfer(dir, pairs, 1, src_host, link_files),
                      Append(log, pairs))

copy_or_link_from(files, i, src_host, dest_dir, link_files, dir, log) ==
    IF i > Len(files) THEN [exc |-> "none", dir |-> dir, log |-> log]
    ELSE IF ~entry_accepted(files[i])
    THEN [exc |-> "ValueError", dir |-> dir, log |-> log]
    ELSE copy_or_link_entry(
            files, i, src_host, dest_dir, link_files, dir, log,
            src_dest_files(files[i].cls,
                           _object_dir_basename(files[i].prev_file),
                           _object_dir_basename(files[i].input_file),
                           dest_dir))

\* copy_or_link_objects(files, src_host, dest_dir, link_files) on the
\* directory content dir; files is the mapping as the sequence of its items.
copy_or_link_objects(files, src_host, dest_dir, link_files, dir) ==
    copy_or_link_from(files, 1, src_host, abspath(Path(dest_dir)), link_files,
                      dir, <<>>)

\* The mappings client code passes: classes of objects.py, each once, with
\* the file it comes from and the name it gets.
PrevFiles ==
    { <<"run1", SEP, "EigenEnergies", DOT, "yaml">>,
      <<"run1", SEP, "CoulombVertex", DOT, "elements">>,
      <<"prevdir", SEP, "SomeCoulombVertex", DOT, "yaml">>,
      <<"c", DOT, "yml">> }

InputFiles ==
    { <<"EigenEnergies", DOT, "yaml">>, <<"CoulombVertex">>,
      <<"in", SEP, "X">> }

MappedClasses ==
    {"EigenEnergies", "CoulombVertex", "SlicedEigenEnergies", "ResultDict"}

FileEntries ==
    [cls : MappedClasses, prev_file : PrevFiles, input_file : InputFiles]

RECURSIVE Mappings(_)
Mappings(n) ==
    IF n = 0 THEN {<<>>}
    ELSE Mappings(n - 1)
         \cup { Append(m, e) : m \in { m \in Mappings(n - 1) : Len(m) = n - 1 },
                               e \in FileEntries }

ObjectsFiles ==
    { m \in Mappings(MaxEntries) :
        m # <<>> /\ \A i, j \in DOMAIN m : m[i].cls = m[j].cls => i = j }

DestDir == <<"run", SEP, "in">>

-----------------------------------------------------------------------------
Init ==
    /\ rec = NoRecord
    /\ ret = [op |-> "none"]
    /\ cmp = [op |-> "none"]
    /\ prog = NoProgram
    /\ doc = NoDoc
    /\ docOf = NoProgram
    /\ loaded = [op |-> "none"]
    /\ kinds = imported
    /\ call = [op |-> "none"]
    /\ destdir = EmptyDir

\* The client constructs a record; it holds the record if one is produced.
\* Construction reads no state, so a session makes one construction, first.
Construct ==
    /\ ret.op = "none"
    /\ \E cls \in AlgoClasses : \E c \in RawCalls(cls) :
          LET r == BaseAlgo_init(cls, c.name, c.input, c.output)
          IN /\ rec' = r.rec
             /\ ret' = [op |-> "init", cls |-> cls, name |-> c.name,
                        input |-> c.input, output |-> c.output, exc |-> r.exc,
                        errors |-> r.errors, warned |-> r.warned]
    /\ UNCHANGED <<cmp, prog, doc, docOf, loaded, kinds, call, destdir>>

\* The client assigns to an attribute of the record it holds.
SetAttr ==
    /\ rec # NoRecord
    /\ \E attr \in AttrNames : \E value \in AssignedValues(rec.cls, attr) :
          LET r == BaseAlgo_setattr(rec, attr, value)
          IN /\ rec' = r.rec
             /\ ret' = [op |-> "setattr", attr |-> attr, value |-> value,
                        before |-> rec, exc |-> r.exc, errors |-> r.errors,
                        warned |-> r.warned]
    /\ UNCHANGED <<cmp, prog, doc, docOf, loaded, kinds, call, destdir>>

-----------------------------------------------------------------------------
(* The convenience constructors and CoupledClusterGenerator.get_input_set *)

\* Faulty variant of ReadAlgo_from_filename that names the destination after
\* the file with its suffix.
from_filename_keeps_suffix(filename) ==
    BaseAlgo_init("ReadAlgo", Missing, V_Dict([fileName |-> V_Str(filename)]),
                  V_Dict([destination |-> V_Str(Path_name(filename))]))

\* ReadAlgo.from_filename: Path(filename).with_suffix("") is evaluated before
\* the class is called, so its ValueError is raised as it is.
ReadAlgo_from_filename(filename) ==
    IF Path_with_suffix_name(filename).exc # "none" THEN raised("ValueError")
    ELSE BaseAlgo_init("ReadAlgo", Missing,
                       V_Dict([fileName |-> V_Str(filename)]),
                       V_Dict([destination |->
                                  V_Str(Path_with_suffix_name(filename).name)]))

\* ReadAlgo.build: the parameter object_type is not passed on.
ReadAlgo_build(filename, destination, object_type) ==
    BaseAlgo_init("ReadAlgo", Missing, V_Dict([fileName |-> V_Str(filename)]),
                  V_Dict([destination |-> V_Str(destination)]))

\* Faulty variant of WriteAlgo_from_object that names the file after the
\* object without the extension.
from_object_without_suffix(object_name) ==
    BaseAlgo_init("WriteAlgo", Missing,
                  V_Dict([source |-> V_Str(object_name),
                          fileName |-> V_Str(object_name)]),
                  V_Dict(EmptyDict))

\* WriteAlgo.from_object.
WriteAlgo_from_object(object_name) ==
    BaseAlgo_init("WriteAlgo", Missing,
                  V_Dict([source |-> V_Str(object_name),
                          fileName |-> V_Str(object_name \o <<DOT, "yaml">>)]),
                  V_Dict(EmptyDict))

\* The classmethod default of the four classes that have one.  The numbers
\* of CoupledClusterAlgo.default are written with the model's numerals: 100
\* for the ints (100, 20), 4 for the floats (1.0e-8) and for maxResidua.
BaseAlgo_default(cls) ==
    CASE cls = "DefineHolesAndParticlesAlgo" ->
            BaseAlgo_init(cls, Missing,
                V_Dict([eigenEnergies |-> V_Str(<<"EigenEnergies">>)]),
                V_Dict([slicedEigenEnergies |-> V_Str(<<"SlicedEigenEnergies">>)]))
      [] cls = "SliceOperatorAlgo" ->
            BaseAlgo_init(cls, Missing,
                V_Dict([slicedEigenEnergies |-> V_Str(<<"SlicedEigenEnergies">>),
                        operator |-> V_Str(<<"CoulombVertex">>)]),
                V_Dict([slicedOperator |-> V_Str(<<"SlicedCoulombVertex">>)]))
      [] cls = "VertexCoulombIntegralsAlgo" ->
            BaseAlgo_init(cls, Missing,
                V_Dict([slicedCoulombVertex |-> V_Str(<<"SlicedCoulombVertex">>)]),
                V_Dict([coulombIntegrals |-> V_Str(<<"CoulombIntegrals">>)]))
      [] cls = "CoupledClusterAlgo" ->
            BaseAlgo_init(cls, Missing,
                V_Dict([slicedEigenEnergies |-> V_Str(<<"SlicedEigenEnergies">>),
                        coulombIntegrals |-> V_Str(<<"CoulombIntegrals">>),
                        slicedCoulombVertex |-> V_Str(<<"SlicedCoulombVertex">>),
                        method |-> V_Str(<<"Ccsd">>),
                        integralsSliceSize |-> V_Int(100),
                        maxIterations |-> V_Int(100),
                        energyConvergence |-> V_Float(4),
                        amplitudesConvergence |-> V_Float(4),
                        mixer |-> DefaultMixer]),
                V_Dict([amplitudes |-> V_Str(<<"Amplitudes">>)]))

\* The algos of CoupledClusterGenerator.get_input_set, as the outcomes of
\* the six constructor calls.
get_input_set_algos ==
    << ReadAlgo_from_filename(<<"in", SEP, "EigenEnergies", DOT, "yaml">>),
       ReadAlgo_from_filename(<<"in", SEP, "CoulombVertex", DOT, "yaml">>),
       BaseAlgo_default("DefineHolesAndParticlesAlgo"),
       BaseAlgo_default("SliceOperatorAlgo"),
       BaseAlgo_default("VertexCoulombIntegralsAlgo"),
       BaseAlgo_default("CoupledClusterAlgo") >>

\* cc4sin of get_input_set: CC4SIn(algos=algos).
get_input_set_cc4sin ==
    CC4SIn_init([i \in 1..Len(get_input_set_algos) |-> get_input_set_algos[i].rec])

\* The calls whose records the client puts into a CC4SIn: Reads without and
\* with an object_type, records with nested, unset and number-like values.
ProgramCalls ==
    LET Read(f, h, dest) ==
            [cls |-> "ReadAlgo", name |-> Missing,
             input |-> V_Dict(IF h = Missing THEN [fileName |-> V_Str(f)]
                              ELSE [fileName |-> V_Str(f), object_type |-> h]),
             output |-> V_Dict([destination |-> V_Str(dest)])]
        Default(cls) ==
            [cls |-> cls, name |-> Missing, input |-> DefaultDict(Input(cls)),
             output |-> DefaultDict(Output(cls))]
    IN { Read(<<"EigenEnergies", DOT, "yaml">>, Missing, <<"EigenEnergies">>),
         Read(<<"in", SEP, "DeltaIntegralsHH", DOT, "yaml">>, V_None, <<"100">>),
         Read(<<"CoulombVertex", DOT, "yaml">>, V_Str(<<"CoulombVertex">>),
              <<"tada">>),
         Read(<<"CoulombVertex", DOT, "yaml">>, V_Str(<<"CoulombIntegrals">>),
              <<"tada">>),
         Read(<<"CoulombVertex", "2", DOT, "yaml">>, V_Str(<<"CoulombVertex">>),
              <<"tada">>),
         [Default("DefineHolesAndParticlesAlgo") EXCEPT
             !.input = V_Dict([eigenEnergies |-> V_Str(<<"null">>)]),
             !.output = V_Dict([slicedEigenEnergies |-> V_Str(<<DQ, "tada">>)])],
         [Default("WriteAlgo") EXCEPT
             !.input = V_Dict([source |-> V_Str(<<>>),
                               fileName |-> V_Str(<<DQ, "tada", DOT, "yaml", DQ>>)])],
         Default("CoupledClusterAlgo") }

\* The calls that build the records the client goes on to work with: those
\* of ProgramCalls and the default call of every class.
BuildCalls ==
    ProgramCalls
    \cup {[cls |-> c, name |-> Missing, input |-> DefaultDict(Input(c)),
           output |-> DefaultDict(Output(c))] : c \in AlgoClasses}

\* The client constructs a record from arguments that are valid, and holds it.
Build ==
    /\ ret.op = "none"
    /\ \E c \in BuildCalls :
          LET r == BaseAlgo_init(c.cls, c.name, c.input, c.output)
          IN /\ r.exc = "none"
             /\ rec' = r.rec
             /\ ret' = [op |-> "init", cls |-> c.cls, name |-> c.name,
                        input |-> c.input, output |-> c.output, exc |-> r.exc,
                        errors |-> r.errors, warned |-> r.warned]
    /\ UNCHANGED <<cmp, prog, doc, docOf, loaded, kinds, call, destdir>>

\* The object names given to WriteAlgo.from_object: the keys of _OBJECTS and
\* names that are none.
GivenObjectNames ==
    {<<k>> : k \in DOMAIN _OBJECTS} \cup {<<"tada">>, <<"CoulombVertex", "2">>}

\* The filenames given to ReadAlgo.from_filename: the fileName of a Write of
\* each object name, bare and under a directory, and names without a stem.
GivenFilenames ==
    {n \o <<DOT, "yaml">> : n \in GivenObjectNames}
    \cup {<<"in", SEP>> \o n \o <<DOT, "yaml">> : n \in GivenObjectNames}
    \cup {<<>>, <<"in", SEP>>}

\* The client builds a Write with WriteAlgo.from_object.
FromObject ==
    /\ ret.op = "none"
    /\ \E n \in GivenObjectNames :
          /\ rec' = WriteAlgo_from_object(n).rec
          /\ ret' = [op |-> "from_object", object_name |-> n,
                     exc |-> WriteAlgo_from_object(n).exc]
    /\ UNCHANGED <<cmp, prog, doc, docOf, loaded, kinds, call, destdir>>

\* The client builds a Read with ReadAlgo.from_filename.
FromFilename ==
    /\ ret.op = "none"
    /\ \E f \in GivenFilenames :
          /\ rec' = ReadAlgo_from_filename(f).rec
          /\ ret' = [op |-> "from_filename", filename |-> f,
                     exc |-> ReadAlgo_from_filename(f).exc]
    /\ UNCHANGED <<cmp, prog, doc, docOf, loaded, kinds, call, destdir>>

\* The file names given to ReadAlgo.build.
BuiltFilenames ==
    { <<"CoulombVertex", DOT, "yaml">>, <<"CoulombVertex", "2", DOT, "yaml">>,
      <<"in", SEP, "EigenEnergies", DOT, "yaml">>, <<>> }

\* The client builds a Read with ReadAlgo.build.
BuildRead ==
    /\ ret.op = "none"
    /\ \E f \in BuiltFilenames, h \in Hints \ {Missing} :
          /\ rec' = ReadAlgo_build(f, <<"tada">>, h).rec
          /\ ret' = [op |-> "build", filename |-> f, destination |-> <<"tada">>,
                     object_type |-> h,
                     exc |-> ReadAlgo_build(f, <<"tada">>, h).exc,
                     warned |-> ReadAlgo_build(f, <<"tada">>, h).warned]
    /\ UNCHANGED <<cmp, prog, doc, docOf, loaded, kinds, call, destdir>>

\* The attributes of a sub-record the client assigns to: its first
\* MaxSubFields fields and a name that is no field.
SubAttrNames(schema) ==
    {schema[i].name : i \in {j \in 1..Len(schema) : j <= MaxSubFields}}
    \cup {"nofield"}

\* The schema of a sub-record of the class.
SchemaOf(cls, part) == IF part = "input" THEN Input(cls) ELSE Output(cls)

\* The client assigns to an attribute of the input or output of the record it
\* holds: rec.input.<attr> = "other".
SetSubAttr ==
    /\ rec # NoRecord
    /\ \E part \in {"input", "output"} :
          \E attr \in SubAttrNames(SchemaOf(rec.cls, part)) :
             LET r == InOutModel_setattr(SchemaOf(rec.cls, part), rec[part],
                                         attr, V_Str(<<"other">>))
             IN /\ rec' = [rec EXCEPT ![part] = r.v]
                /\ ret' = [op |-> "setsubattr", part |-> part, attr |-> attr,
                           before |-> rec, exc |-> r.exc]
    /\ UNCHANGED <<cmp, prog, doc, docOf, loaded, kinds, call, destdir>>

\* The two ways a record is validated a second time: the class is called
\* with the record's own fields, or get_algo is given the record's dict().
revalidate(self, form) ==
    IF form = "record"
    THEN BaseAlgo_init(self.cls, self.name, self.input, self.output)
    ELSE get_algo(as_mapping(BaseAlgo_dict(self)))

\* The client validates the record it holds a second time and keeps the
\* first record.
Revalidate ==
    /\ rec # NoRecord
    /\ \E form \in {"record", "dict"} :
          ret' = [op |-> "revalidate", form |-> form, before |-> rec,
                  exc |-> revalidate(rec, form).exc,
                  errors |-> revalidate(rec, form).errors,
                  warned |-> revalidate(rec, form).warned,
                  rec |-> revalidate(rec, form).rec]
    /\ UNCHANGED <<rec, cmp, prog, doc, docOf, loaded, kinds, call, destdir>>

ObjectNames == {<<"tada">>, <<"CoulombVertex">>}

Objects == {V_Object(c, s) : c \in ObjectClasses, s \in ObjectNames}

\* The client compares two Objects with == and with !=.
Compare ==
    /\ \E a \in Objects, b \in Objects :
          cmp' = [op |-> "compare", a |-> a, b |-> b,
                  eq |-> Object_eq(a, b), ne |-> Object_ne(a, b)]
    /\ UNCHANGED <<rec, ret, prog, doc, docOf, loaded, kinds, call, destdir>>

\* The client builds a CC4SIn from records it constructs.
NewProgram ==
    /\ prog = NoProgram /\ doc = NoDoc
    /\ \E calls \in SeqsUpTo(ProgramCalls, MaxSteps) :
          LET built == [i \in 1..Len(calls) |->
                          BaseAlgo_init(calls[i].cls, calls[i].name,
                                        calls[i].input, calls[i].output)]
          IN /\ \A i \in 1..Len(calls) : built[i].exc = "none"
             /\ prog' = CC4SIn_init([i \in 1..Len(calls) |-> built[i].rec])
    /\ UNCHANGED <<rec, ret, cmp, doc, docOf, loaded, kinds, call, destdir>>

\* The client takes the CC4SIn of CoupledClusterGenerator.get_input_set.
GetInputSet ==
    /\ prog = NoProgram /\ doc = NoDoc
    /\ \A i \in 1..Len(get_input_set_algos) : get_input_set_algos[i].exc = "none"
    /\ prog' = get_input_set_cc4sin
    /\ UNCHANGED <<rec, ret, cmp, doc, docOf, loaded, kinds, call, destdir>>

\* The client writes the CC4SIn it holds: to_file().
ToFile ==
    /\ prog # NoProgram /\ doc = NoDoc
    /\ doc' = CC4SIn_to_file(prog)
    /\ docOf' = prog
    /\ UNCHANGED <<rec, ret, cmp, prog, loaded, kinds, call, destdir>>

\* The records of the documents that are written by hand.
DocumentRecords ==
    LET Plain(s) == Scalar("plain", s)
        Pair(k, n) == [key |-> k, node |-> n]
        Record(name, in, out) ==
            Mapping(<<Pair("name", Plain(<<name>>)), Pair("in", Mapping(in)),
                      Pair("out", Mapping(out))>>)
        Read(f, dest) ==
            Record("Read", <<Pair("fileName", Scalar("double", f))>>,
                   <<Pair("destination", Plain(dest))>>)
    IN { Read(<<"EigenEnergies", DOT, "yaml">>, <<"EigenEnergies">>),
         Read(<<"CoulombVertex", DOT, "yaml">>, <<"100">>),
         Read(<<"CoulombVertex", "2", DOT, "yaml">>, <<"tada">>),
         Read(<<"Coulomb", DQ, "Vertex", DOT, "yaml">>, <<"tada">>),
         Record("Read",
                <<Pair("fileName", Plain(<<"CoulombVertex", DOT, "yaml">>)),
                  Pair("object_type", Plain(<<"CoulombIntegrals">>))>>,
                <<Pair("destination", Plain(<<"tada">>))>>),
         Record("DefineHolesAndParticles",
                <<Pair("eigenEnergies", Plain(<<"EigenEnergies">>))>>,
                <<Pair("slicedEigenEnergies", Plain(<<"SlicedEigenEnergies">>))>>),
         Record("Write", <<Pair("source", Plain(<<"tada">>))>>, <<>>),
         Record("NoSuchAlgo", <<>>, <<>>),
         Mapping(<<Pair("name", Plain(<<"Write">>)),
                   Pair("in", Mapping(<<Pair("source", Plain(<<"tada">>)),
                                        Pair("fileName", Plain(<<"tada">>))>>))>>) }

\* A file cc4s.in is written by hand.
WriteDoc ==
    /\ prog = NoProgram /\ doc = NoDoc
    /\ \E nodes \in SeqsUpTo(DocumentRecords, MaxSteps) :
          doc' = [ok |-> TRUE, nodes |-> nodes]
    /\ UNCHANGED <<rec, ret, cmp, prog, docOf, loaded, kinds, call, destdir>>

\* The client loads the file: CC4SIn.from_file("cc4s.in").
FromFile ==
    /\ doc # NoDoc /\ loaded.op = "none"
    /\ loaded' = CC4SIn_from_file(doc)
    /\ UNCHANGED <<rec, ret, cmp, prog, doc, docOf, kinds, call, destdir>>

\* What str(pycc4s.__version__) may be: None if the package has no version.
Versions == {V_None, V_Str(<<"0", DOT, "1">>)}

\* The client asks for the JSON representation of the CC4SIn it holds:
\* as_dict().
AsDict ==
    /\ prog # NoProgram /\ call.op = "none"
    /\ \E version \in Versions :
          call' = [op |-> "as_dict", d |-> CC4SIn_as_dict(prog, version)]
    /\ UNCHANGED <<rec, ret, cmp, prog, doc, docOf, loaded, kinds, destdir>>

\* The client validates the CC4SIn it holds: validate().
Validate ==
    /\ prog # NoProgram /\ call.op = "none"
    /\ call' = [op |-> "validate", exc |-> CC4SIn_validate(prog).exc]
    /\ UNCHANGED <<rec, ret, cmp, prog, doc, docOf, loaded, kinds, destdir>>

\* The class names client code tries, and the bases it derives from.
ClientClassNames ==
    { <<"My", "Algo">>, <<"Your", "Algo">>, <<"My">>, <<"My", "Algo", "rithm">>,
      <<"Read", "Algo">>, <<"Write", "Algo">> }

\* Client code defines a class derived from BaseAlgo (0), from ReadAlgo (1)
\* or from the class defined last, with or without an Input and Output of
\* its own.
\* _ALGOS was built when algorithms.py was imported and is not built again.
DefineClass ==
    /\ Len(kinds.defined) < Len(ModuleClasses) + MaxClientClasses
    /\ \E cls_name \in ClientClassNames, base \in {0, 1, Len(kinds.defined)},
          own_io \in BOOLEAN :
          LET r == class_statement(kinds.defined, cls_name, base, own_io)
          IN kinds' = [defined |-> IF r.exc = "none"
                                   THEN Append(kinds.defined, r.cls)
                                   ELSE kinds.defined,
                       registry |-> kinds.registry,
                       last |-> [op |-> "class", name |-> cls_name, base |-> base,
                                 own_io |-> own_io, exc |-> r.exc,
                                 before |-> kinds.defined]]
    /\ UNCHANGED <<rec, ret, cmp, prog, doc, docOf, loaded, call, destdir>>

\* Client code asks a class of objects.py for its tensor component files.
ElementsFiles ==
    /\ \E cls \in FileObjectClasses, basename \in Basenames :
          call' = [op |-> "elements_files", cls |-> cls, basename |-> basename,
                   exc |-> elements_files(cls, basename).exc,
                   value |-> elements_files(cls, basename).value]
    /\ UNCHANGED <<rec, ret, cmp, prog, doc, docOf, loaded, kinds, destdir>>

\* Client code asks a class of objects.py for its additional files.
AdditionalFiles ==
    /\ \E cls \in FileObjectClasses, basename \in Basenames :
          call' = [op |-> "additional_files", cls |-> cls,
                   basename |-> basename,
                   exc |-> additional_files(cls, basename).exc,
                   none |-> additional_files(cls, basename).none,
                   value |-> additional_files(cls, basename).value]
    /\ UNCHANGED <<rec, ret, cmp, prog, doc, docOf, loaded, kinds, destdir>>

\* Client code splits an object file path.
ObjectDirBasename ==
    /\ \E fpath \in ObjectPaths :
          call' = [op |-> "_object_dir_basename", fpath |-> fpath,
                   exc |-> _object_dir_basename(fpath).exc,
                   dir |-> _object_dir_basename(fpath).dir,
                   base |-> _object_dir_basename(fpath).base]
    /\ UNCHANGED <<rec, ret, cmp, prog, doc, docOf, loaded, kinds, destdir>>

\* write_input makes the directory "in" anew and has copy_or_link_objects
\* fill it; client code calls copy_or_link_objects on a new directory too.
\* The call reads no other state, so a session makes one call, first.
CopyOrLink ==
    /\ call.op = "none"
    /\ destdir = EmptyDir
    /\ \E files \in ObjectsFiles, src_host \in {"None", "cluster"},
          link_files \in BOOLEAN :
          \E r \in {copy_or_link_objects(files, src_host, DestDir, link_files,
                                         EmptyDir)} :
              /\ call' = [op |-> "copy_or_link_objects", files |-> files,
                          src_host |-> src_host, link_files |-> link_files,
                          exc |-> r.exc, log |-> r.log]
              /\ destdir' = r.dir
    /\ UNCHANGED <<rec, ret, cmp, prog, doc, docOf, loaded, kinds>>

Next == Construct \/ SetAttr

RecordNext ==
    Build \/ FromObject \/ FromFilename \/ BuildRead \/ SetAttr \/ SetSubAttr
    \/ Revalidate

RecordSpec == Init /\ [][RecordNext]_vars

KindNext == DefineClass

KindSpec == Init /\ [][KindNext]_vars

ProgramNext ==
    NewProgram \/ GetInputSet \/ ToFile \/ WriteDoc \/ FromFile \/ AsDict
    \/ Validate

ProgramSpec == Init /\ [][ProgramNext]_vars

Spec == Init /\ [][Next]_vars

ObjectNext == Compare

ObjectSpec == Init /\ [][ObjectNext]_vars

FilesNext == ElementsFiles \/ AdditionalFiles \/ ObjectDirBasename

FilesSpec == Init /\ [][FilesNext]_vars

LinkNext == CopyOrLink

LinkSpec == Init /\ [][LinkNext]_vars

-----------------------------------------------------------------------------
(* Claims about the construction of records (specification Spec) *)

IsKey(v) == v.tag = "str" /\ Len(v.s) = 1 /\ v.s[1] \in DOMAIN _OBJECTS

HasNoQuote(s) == \A i \in 1..Len(s) : s[i] # DQ

\* The last call constructed a ReadAlgo from raw arguments that are valid
\* field by field: no name or the name Read, a fileName string that holds no
\* double quote once the enclosing ones are stripped, a destination string.
ReadBuilt ==
    /\ ret.op = "init" /\ ret.cls = "ReadAlgo"
    /\ ret.name \in {Missing, V_Str(<<"Read">>)}
    /\ ret.input.tag = "dict"
    /\ "fileName" \in DOMAIN ret.input.d
    /\ ret.input.d.fileName.tag = "str"
    /\ HasNoQuote(strip_dq(ret.input.d.fileName.s))
    /\ ret.output.tag = "dict"
    /\ "destination" \in DOMAIN ret.output.d
    /\ ret.output.d.destination.tag = "str"

GivenFileName == strip_dq(ret.input.d.fileName.s)

GivenHint == Lookup(ret.input.d, "object_type")

\* fileName without its directory, and without its last extension too.
GivenName == Path_name(GivenFileName)

GivenStem ==
    IF SuffixStart(GivenName) = 0 THEN GivenName
    ELSE SubSeq(GivenName, 1, SuffixStart(GivenName) - 1)

StemIsKey == Len(GivenStem) = 1 /\ GivenStem[1] \in DOMAIN _OBJECTS

Produced(cls) ==
    /\ ret.exc = "none" /\ rec # NoRecord
    /\ rec.output.d.destination = V_Object(cls, ret.output.d.destination.s)

Failed(exc) == ret.exc = exc /\ rec = NoRecord

\* C1 as stated: without an object_type hint the destination has the variant
\* registered under the fileName's stem, and a stem that names no registered
\* variant makes the construction fail with AlgorithmInitializationError.
C1_AsStated ==
    ReadBuilt /\ GivenHint \in {Missing, V_None} =>
        IF StemIsKey THEN Produced(_OBJECTS[GivenStem[1]])
        ELSE Failed("AlgorithmInitializationError")

\* C1 amended: the same for a fileName whose last path component is not
\* empty; a fileName with an empty last component (the empty string, "/", ".")
\* makes the construction fail with a validation error and no record.
C1_StemDecidesVariant ==
    ReadBuilt /\ GivenHint \in {Missing, V_None} =>
        IF GivenName = <<>> THEN Failed("ValidationError")
        ELSE IF StemIsKey
        THEN Produced(_OBJECTS[GivenStem[1]]) /\ ret.warned = 0
        ELSE Failed("AlgorithmInitializationError")

C1_Witness ==
    /\ ReadBuilt /\ GivenHint = Missing
    /\ GivenFileName = <<"in", SEP, "DeltaIntegralsPPHH", DOT, "yaml">>
    /\ Produced("DeltaIntegrals")

C1_WitnessNoVariant ==
    /\ ReadBuilt /\ GivenHint = Missing
    /\ GivenFileName = <<"CoulombVertex", "2", DOT, "yaml">>
    /\ Failed("AlgorithmInitializationError")

\* C2 as stated: with an object_type hint that names a variant the record is
\* produced with that variant; exactly one warning is emitted if the fileName
\* yields another variant, none if it yields the same variant or none.
C2_AsStated ==
    ReadBuilt /\ IsKey(GivenHint) =>
        /\ Produced(_OBJECTS[GivenHint.s[1]])
        /\ ret.warned = IF StemIsKey /\ _OBJECTS[GivenStem[1]] # _OBJECTS[GivenHint.s[1]]
                        THEN 1 ELSE 0

\* C2 amended: the same for a fileName whose last path component is not
\* empty; with an empty last component the construction fails with a
\* validation error whatever the hint.
C2_HintWins ==
    ReadBuilt /\ IsKey(GivenHint) =>
        IF GivenName = <<>> THEN Failed("ValidationError")
        ELSE /\ Produced(_OBJECTS[GivenHint.s[1]])
             /\ ret.warned = IF StemIsKey
                                /\ _OBJECTS[GivenStem[1]] # _OBJECTS[GivenHint.s[1]]
                             THEN 1 ELSE 0

C2_Witness ==
    /\ ReadBuilt /\ GivenHint = V_Str(<<"CoulombIntegrals">>)
    /\ GivenFileName = <<"CoulombVertex", DOT, "yaml">>
    /\ Produced("CoulombIntegrals") /\ ret.warned = 1

C2_WitnessNoWarning ==
    /\ ReadBuilt /\ GivenHint = V_Str(<<"CoulombVertex">>)
    /\ GivenFileName = <<"CoulombVertex", "2", DOT, "yaml">>
    /\ Produced("CoulombVertex") /\ ret.warned = 0

\* The call's input and output are valid: the same call without a name
\* produces a record.
RestIsValid ==
    BaseAlgo_init(ret.cls, Missing, ret.input, ret.output).exc = "none"

\* C6: for every algorithm class, a construction from valid input and output
\* with a name string other than the class's algorithm name fails with
\* exactly one validation error, of type const, whose permitted value is the
\* algorithm name; without a name the record's name is the algorithm name.
C6_NameIsConst ==
    ret.op = "init" /\ RestIsValid =>
        /\ ret.name.tag = "str" /\ ret.name.s # <<algo_name(ret.cls)>> =>
              /\ Failed("ValidationError")
              /\ Len(ret.errors) = 1
              /\ ret.errors[1].loc = <<"name">>
              /\ ret.errors[1].type = "value_error.const"
              /\ ret.errors[1].permitted = <<algo_name(ret.cls)>>
        /\ ret.name = Missing =>
              /\ ret.exc = "none"
              /\ rec.name = V_Str(<<algo_name(ret.cls)>>)

C6_Witness ==
    /\ ret.op = "init" /\ RestIsValid /\ ret.cls = "CoupledClusterAlgo"
    /\ ret.name = V_Str(<<"Read">>)
    /\ Len(ret.errors) = 1 /\ ret.errors[1].permitted = <<"CoupledCluster">>

\* C7: the name of a record the client holds is its class's algorithm name,
\* whatever was assigned before; every assignment to name, also of the name
\* the record already has, raises and leaves the record as it was.
C7_NameNeverChanges ==
    /\ rec # NoRecord => rec.name = V_Str(<<algo_name(rec.cls)>>)
    /\ ret.op = "setattr" /\ ret.attr = "name" =>
          ret.exc # "none" /\ rec = ret.before

C7_Witness ==
    /\ ret.op = "setattr" /\ ret.attr = "name"
    /\ ret.value = V_Str(<<"Read">>) /\ rec.cls = "ReadAlgo"
    /\ ret.exc = "TypeError"

\* The fields of the schema that are declared with an Object class.
ObjectFields(schema) == {i \in 1..Len(schema) : schema[i].type \in ObjectClasses}

\* What C9 says of the input or output part (given as a raw mapping) of a
\* call on a class other than ReadAlgo.
ObjectFieldsKeepType(part, schema, d) ==
    \A i \in ObjectFields(schema) :
        schema[i].name \in DOMAIN d /\ d[schema[i].name].tag = "str" =>
            /\ \A k \in 1..Len(ret.errors) :
                  ret.errors[k].loc # <<part, schema[i].name>>
            /\ rec # NoRecord =>
                  rec[part].d[schema[i].name]
                      = V_Object(schema[i].type, d[schema[i].name].s)

\* C9: in a class other than ReadAlgo, a string given for a field declared
\* with an Object class V is accepted as the V of that name, also when the
\* string is the name of another class: no error is reported for the field,
\* no warning is emitted and no exception other than the validation error of
\* the other fields is raised.
C9_DeclaredTypeDecides ==
    ret.op = "init" /\ ret.cls # "ReadAlgo" =>
        /\ ret.warned = 0
        /\ ret.exc \in {"none", "ValidationError"}
        /\ ret.input.tag = "dict" =>
              ObjectFieldsKeepType("input", Input(ret.cls), ret.input.d)
        /\ ret.output.tag = "dict" =>
              ObjectFieldsKeepType("output", Output(ret.cls), ret.output.d)
        /\ RestIsValid /\ ret.name = Missing => rec # NoRecord

C9_Witness ==
    /\ ret.op = "init" /\ ret.cls = "DefineHolesAndParticlesAlgo"
    /\ ret.input = V_Dict([eigenEnergies |-> V_Str(<<"CoulombVertex">>)])
    /\ rec # NoRecord
    /\ rec.input.d.eigenEnergies = V_Object("EigenEnergies", <<"CoulombVertex">>)

\* The errors pydantic reports for the call's input and output mappings.
FieldErrors ==
    validate_io("input", ret.input, Input(ret.cls)).errs
    \o validate_io("output", ret.output, Output(ret.cls)).errs

\* C10 as stated: a construction, of any class, from input or output in which
\* a declared field is missing or cannot be coerced fails with a validation
\* error that lists the offending fields, and produces no record.
C10_AsStated ==
    ret.op = "init" /\ FieldErrors # <<>> =>
        /\ Failed("ValidationError")
        /\ \A k \in 1..Len(FieldErrors) :
              \E j \in 1..Len(ret.errors) : ret.errors[j] = FieldErrors[k]

\* C10 holds of the classes other than ReadAlgo.
C10_OtherClasses ==
    ret.op = "init" /\ ret.cls # "ReadAlgo" => C10_AsStated

-----------------------------------------------------------------------------
(* Claims about Objects (specification ObjectSpec) *)

\* C8 as stated: a == b holds exactly if a and b have the same class and the
\* same name, and a != b is the negation of a == b.
C8_AsStated ==
    cmp.op = "compare" =>
        /\ cmp.eq <=> (cmp.a.cls = cmp.b.cls /\ cmp.a.s = cmp.b.s)
        /\ cmp.ne <=> ~cmp.eq

\* The half of C8 that holds: ==.
C8_EqIsClassAndName ==
    cmp.op = "compare" =>
        (cmp.eq <=> (cmp.a.cls = cmp.b.cls /\ cmp.a.s = cmp.b.s))

-----------------------------------------------------------------------------
(* Claims about documents (specification ProgramSpec) *)

\* C3 as stated: writing a CC4SIn with to_file and loading the written file
\* with from_file raises nothing and yields a CC4SIn equal to the written one.
C3_AsStated ==
    loaded.op = "from_file" /\ docOf # NoProgram =>
        loaded.exc = "none" /\ CC4SIn_eq(loaded.prog, docOf)

\* The class get_object finds in the fileName of a ReadAlgo.
ClassOfFileName(r) ==
    OBJECTS_get(V_Str(Path_with_suffix_name(r.input.d.fileName.s).name))

\* The round trip holds of the CC4SIn in which the destination of every
\* ReadAlgo has the class of its fileName.
C3_RoundTripOfInferredReads ==
    /\ loaded.op = "from_file" /\ docOf # NoProgram
    /\ \A i \in 1..Len(docOf.algos) :
          docOf.algos[i].cls = "ReadAlgo" =>
              docOf.algos[i].output.d.destination.cls
                  = ClassOfFileName(docOf.algos[i])
    => loaded.exc = "none" /\ CC4SIn_eq(loaded.prog, docOf)

\* The outcome of get_algo on the i-th record of the file.
RecordOutcome(i) == get_algo(construct_object(doc.nodes[i]))

\* C4: a from_file that returns, returns a CC4SIn with one step for each
\* record of the document, in the document's order: step i is the record
\* validated from the i-th document record and has the class registered in
\* _ALGOS under that record's name.
C4_OneStepPerRecord ==
    loaded.op = "from_file" /\ loaded.exc = "none" =>
        /\ Len(loaded.prog.algos) = Len(doc.nodes)
        /\ \A i \in 1..Len(doc.nodes) :
              /\ RecordOutcome(i).exc = "none"
              /\ loaded.prog.algos[i] = RecordOutcome(i).rec
              /\ loaded.prog.algos[i].cls
                    = _ALGOS[construct_object(doc.nodes[i]).d.name.s[1]]

C4_Witness ==
    /\ loaded.op = "from_file" /\ loaded.exc = "none" /\ docOf = NoProgram
    /\ Len(loaded.prog.algos) = 2
    /\ loaded.prog.algos[1].cls = "DefineHolesAndParticlesAlgo"
    /\ loaded.prog.algos[2].cls = "ReadAlgo"

Invalid == {i \in 1..Len(doc.nodes) : RecordOutcome(i).exc # "none"}

FirstInvalid == CHOOSE i \in Invalid : \A j \in Invalid : i <= j

RECURSIVE WarningsBefore(_)
WarningsBefore(i) ==
    IF i = 1 THEN 0 ELSE WarningsBefore(i - 1) + RecordOutcome(i - 1).warned

\* C5: if a record of the document is invalid, from_file raises what the
\* first invalid record raises and returns no CC4SIn; get_algo has been
\* called on the records up to that one only, so that no warning of a later
\* record has been emitted.
C5_FirstFailureEndsLoad ==
    loaded.op = "from_file" /\ Invalid # {} =>
        /\ loaded.exc = RecordOutcome(FirstInvalid).exc
        /\ loaded.errors = RecordOutcome(FirstInvalid).errors
        /\ loaded.prog = NoProgram
        /\ loaded.visited = FirstInvalid
        /\ loaded.warned = WarningsBefore(FirstInvalid)

C5_Witness ==
    /\ loaded.op = "from_file" /\ Len(doc.nodes) = 2
    /\ Invalid = {1} /\ RecordOutcome(2).warned = 1
    /\ loaded.exc = "ValidationError" /\ loaded.prog = NoProgram
    /\ loaded.warned = 0

\* The i-th record of the file is a mapping whose name is a string that is
\* no key of _ALGOS.
UnknownName(i) ==
    /\ construct_object(doc.nodes[i]).tag = "dict"
    /\ "name" \in DOMAIN construct_object(doc.nodes[i]).d
    /\ construct_object(doc.nodes[i]).d.name.tag = "str"
    /\ ~(/\ Len(construct_object(doc.nodes[i]).d.name.s) = 1
         /\ construct_object(doc.nodes[i]).d.name.s[1] \in DOMAIN _ALGOS)

\* The first invalid record of the file is one with an unknown name.
FirstInvalidIsUnknown == Invalid # {} /\ UnknownName(FirstInvalid)

\* C11 as stated: loading a record whose name matches no registered
\* algorithm fails with AlgorithmInitializationError, raised at the lookup of
\* that record.
C11_AsStated ==
    loaded.op = "from_file" /\ FirstInvalidIsUnknown =>
        /\ loaded.exc = "AlgorithmInitializationError"
        /\ loaded.visited = FirstInvalid

\* What the code does for such a record: the lookup raises KeyError, at once.
C11_UnknownNameIsKeyError ==
    loaded.op = "from_file" /\ FirstInvalidIsUnknown =>
        /\ loaded.exc = "KeyError" /\ loaded.prog = NoProgram
        /\ loaded.visited = FirstInvalid

-----------------------------------------------------------------------------
(* Claims about the definition of classes (specification KindSpec) *)

\* The registry get_algo uses is the one built when the module is imported.
RegistryIs_ALGOS ==
    /\ DOMAIN kinds.registry = {<<n>> : n \in DOMAIN _ALGOS}
    /\ \A n \in DOMAIN _ALGOS :
          kinds.defined[kinds.registry[<<n>>]].name = ClassName(_ALGOS[n])

EndsWithAlgo(cls_name) == cls_name # <<>> /\ cls_name[Len(cls_name)] = "Algo"

\* Every entry (k, K) of the registry: k is K's default name, which is K's
\* class name without Algo, and K's input and output are typed by K's own
\* Input and Output.
RegistryEntriesAreConsistent ==
    \A k \in DOMAIN kinds.registry :
        /\ kinds.defined[kinds.registry[k]].default = k
        /\ kinds.defined[kinds.registry[k]].name = k \o <<"Algo">>
        /\ kinds.defined[kinds.registry[k]].input = kinds.registry[k]
        /\ kinds.defined[kinds.registry[k]].output = kinds.registry[k]

\* A class statement leaves the classes defined before it as they were.
EarlierClassesUnchanged ==
    kinds.last.op = "class" =>
        \A i \in 1..Len(kinds.last.before) :
            kinds.defined[i] = kinds.last.before[i]

\* C12 as stated: every class whose definition succeeded is in the registry
\* under its derived name, every registry entry is consistent, and defining
\* a class changes no other class.
C12_AsStated ==
    /\ \A i \in 1..Len(kinds.defined) :
          /\ kinds.defined[i].default \in DOMAIN kinds.registry
          /\ kinds.registry[kinds.defined[i].default] = i
    /\ RegistryEntriesAreConsistent
    /\ EarlierClassesUnchanged

\* The part of C12 that holds: the classes of algorithms.py are in the
\* registry, its entries are consistent, no definition changes another class.
C12_ModuleClassesAreRegistered ==
    /\ \A i \in 1..Len(ModuleClasses) :
          /\ kinds.defined[i].default = <<algo_name(ModuleClasses[i])>>
          /\ kinds.registry[kinds.defined[i].default] = i
    /\ RegistryIs_ALGOS
    /\ RegistryEntriesAreConsistent
    /\ EarlierClassesUnchanged

\* The name the class statement derives is the default of a class defined
\* before it.
DerivesTakenName ==
    /\ EndsWithAlgo(kinds.last.name)
    /\ \E i \in 1..Len(kinds.last.before) :
          kinds.last.before[i].default
              = SubSeq(kinds.last.name, 1, Len(kinds.last.name) - 1)

\* C13 as stated: a class statement raises, and defines and registers
\* nothing, (a) if the class name does not end with Algo and (b) if the name
\* it derives is already derived by another class; the registry never
\* changes an entry.
C13_AsStated ==
    kinds.last.op = "class" =>
        /\ ~EndsWithAlgo(kinds.last.name) \/ DerivesTakenName =>
              /\ kinds.last.exc # "none"
              /\ kinds.defined = kinds.last.before
        /\ kinds.registry = imported.registry

\* The part of C13 that holds: (a), with NameError.
C13_BadNameIsNameError ==
    kinds.last.op = "class" =>
        /\ ~EndsWithAlgo(kinds.last.name) =>
              /\ kinds.last.exc = "NameError"
              /\ kinds.defined = kinds.last.before
        /\ kinds.registry = imported.registry

-----------------------------------------------------------------------------
(* Claims about the serialized form: specification ProgramSpec *)

\* The value holds a None, at some nesting level.
RECURSIVE HoldsNone(_)
HoldsNone(v) ==
    \/ v.tag = "none"
    \/ /\ v.tag = "items"
       /\ \E i \in 1..Len(v.items) : HoldsNone(v.items[i].value)

\* The node holds a null scalar, at some nesting level.
RECURSIVE HoldsNull(_)
HoldsNull(node) ==
    IF node.kind = "mapping"
    THEN \E i \in 1..Len(node.items) : HoldsNull(node.items[i].node)
    ELSE node.style = "plain" /\ resolve(node.s) = "null"

\* C14 as stated: in the mapping dict() returns and in the document to_file
\* writes, an optional field that was not provided is left out at every
\* nesting level, so that no record holds a None and no written record a
\* null.
C14_AsStated ==
    docOf # NoProgram =>
        \A i \in 1..Len(docOf.algos) :
            /\ ~HoldsNone(CC4SIn_dict(docOf)[i])
            /\ ~HoldsNull(doc.nodes[i])

\* The mapping dict() gives for a record, and the written record, have no
\* key object_type under in.
DictAndFileExcludeHint ==
    docOf # NoProgram =>
        \A i \in 1..Len(docOf.algos) :
            /\ "object_type" \notin
                  KeysOf(ValueOf(CC4SIn_dict(docOf)[i].items, "in").items)
            /\ "object_type" \notin KeysOf(node_of(doc.nodes[i].items, "in").items)

\* The algos as_dict() returned.
AsDictAlgos == ValueOf(call.d.items, "algos").l

\* C15 as stated: the object_type hint of a Read is in no serialized form of
\* the record or of its CC4SIn: not in dict(), not in the document to_file
\* writes, and not in what as_dict() returns.
C15_AsStated ==
    /\ DictAndFileExcludeHint
    /\ call.op = "as_dict" =>
          \A i \in 1..Len(AsDictAlgos) :
              "object_type" \notin KeysOf(ValueOf(AsDictAlgos[i].items, "in").items)

\* The part of C15 that holds: dict() and the written document leave the
\* hint out; as_dict() gives the in of a Read record both of its fields.
C15_OnlyAsDictKeepsHint ==
    /\ DictAndFileExcludeHint
    /\ call.op = "as_dict" =>
          \A i \in 1..Len(AsDictAlgos) :
              prog.algos[i].cls = "ReadAlgo" =>
                  /\ KeysOf(ValueOf(AsDictAlgos[i].items, "in").items)
                        = {"fileName", "object_type"}
                  /\ ValueOf(ValueOf(AsDictAlgos[i].items, "in").items, "object_type")
                        = prog.algos[i].input.d.object_type

\* The keys of a mapping in their order.
KeySeq(items) == [i \in 1..Len(items) |-> items[i].key]

\* The names of the fields a schema declares, in declaration order, without
\* the hint object_type.
DeclaredNames(schema) ==
    [i \in 1..Len(SelectSeq(schema, LAMBDA f : f.name # "object_type")) |->
        SelectSeq(schema, LAMBDA f : f.name # "object_type")[i].name]

\* The mapping m, the serialized form of the sub-record sub with this schema,
\* has the schema's fields in declaration order.
CarriesFields(m, schema) == KeySeq(m.items) = DeclaredNames(schema)

\* The mapping dict() gives for the record has the keys name, in, out in this
\* order, and in and out carry the fields and the values of the sub-records.
DictHasThreeKeys(self, d) ==
    /\ KeySeq(d.items) = <<"name", "in", "out">>
    /\ ValueOf(d.items, "name") = self.name
    /\ CarriesFields(ValueOf(d.items, "in"), Input(self.cls))
    /\ CarriesFields(ValueOf(d.items, "out"), Output(self.cls))
    /\ \A k \in KeysOf(ValueOf(d.items, "in").items) :
          ValueOf(ValueOf(d.items, "in").items, k) = dict_value(self.input.d[k])
    /\ \A k \in KeysOf(ValueOf(d.items, "out").items) :
          ValueOf(ValueOf(d.items, "out").items, k) = dict_value(self.output.d[k])

\* The written record has the keys name, in, out in this order, and in and
\* out have the fields of the sub-records in declaration order.
NodeHasThreeKeys(self, node) ==
    /\ KeySeq(node.items) = <<"name", "in", "out">>
    /\ CarriesFields(node_of(node.items, "in"), Input(self.cls))
    /\ CarriesFields(node_of(node.items, "out"), Output(self.cls))

ScalarPairs(d, n) ==
    {<<ValueOf(d.items, k), node_of(n.items, k)>> : k \in KeysOf(d.items)}

\* The pairs of the mappings among the pairs.
NestedPairs(pairs) ==
    UNION {ScalarPairs(p[1], p[2]) : p \in {q \in pairs : q[1].tag = "items"}}

\* Every string the record's dict() holds, at the three nesting levels, with
\* the node written for it.
StringPairs(d, n) ==
    {p \in ScalarPairs(d, n) \cup NestedPairs(ScalarPairs(d, n))
           \cup NestedPairs(NestedPairs(ScalarPairs(d, n))) :
        p[1].tag \in {"str", "FName", "Object"}}

\* The strings of the written document, each with its node.
WrittenStrings ==
    UNION {StringPairs(CC4SIn_dict(docOf)[i], doc.nodes[i]) :
              i \in 1..Len(docOf.algos)}

ReadsBackAsItself(s) == construct_object(Scalar("plain", s)) = V_Str(s)

ObjectsOf(m) == {m.d[k] : k \in {f \in DOMAIN m.d : m.d[f].tag = "Object"}}

\* The source a Write names, as the set of its one text.
SourceOf(self) ==
    IF self.cls = "WriteAlgo" THEN {self.input.d.source.s} ELSE {}

\* No record takes an Object, or writes a source, that no earlier record of
\* the CC4SIn gives out.
CrossConsistent(p) ==
    \A i \in 1..Len(p.algos) :
        /\ \A o \in ObjectsOf(p.algos[i].input) :
              \E j \in 1..(i - 1) : o \in ObjectsOf(p.algos[j].output)
        /\ \A s \in SourceOf(p.algos[i]) :
              \E j \in 1..(i - 1) :
                  \E o \in ObjectsOf(p.algos[j].output) : o.s = s

\* C18 as stated: validate() on a CC4SIn succeeds if the CC4SIn is
\* consistent across its records, and fails with a ValueError if it is not.
C18_AsStated ==
    call.op = "validate" =>
        /\ CrossConsistent(prog) => call.exc = "none"
        /\ ~CrossConsistent(prog) => call.exc = "ValueError"

\* What the code does: validate() raises TypeError on every CC4SIn.
C18_ValidateIsTypeError ==
    call.op = "validate" => call.exc = "TypeError"

-----------------------------------------------------------------------------
(* Claims about validating twice and about assignment: specification
   RecordSpec *)

\* Two records are equal as Python compares them: by their dict(), an Object
\* being equal to an Object of the same class and name only.
RecordsEqual(a, b) ==
    /\ a.cls = b.cls
    /\ py_eq(BaseAlgo_dict(a), BaseAlgo_dict(b))

\* C19 as stated: validating a validated record a second time, from the
\* record or from its dict(), succeeds and gives a record equal to the
\* first, with the same class for every Object, for every class and for a
\* Read built with a hint too.
C19_AsStated ==
    ret.op = "revalidate" =>
        /\ ret.exc = "none"
        /\ RecordsEqual(ret.rec, ret.before)

\* The destination of a Read is what its fileName alone gives.
FileNameGivesDestination(self) ==
    /\ get_object(self.input.d.fileName.s, self.output.d.destination.s,
                  V_None).exc = "none"
    /\ get_object(self.input.d.fileName.s, self.output.d.destination.s,
                  V_None).obj = self.output.d.destination

\* The value is of the type validation gives the field.
HasDeclaredType(field, v) ==
    CASE v.tag = "none" -> field.optional
      [] field.type \in ObjectClasses -> v.tag = "Object" /\ v.cls = field.type
      [] field.type = "MixerModel" -> v.tag = "model"
      [] field.name = "destination" -> v.tag = "Object"
      [] OTHER -> v.tag = field.type

\* Every field of the sub-record has a value of its type.
WellTyped(schema, m) ==
    \A i \in 1..Len(schema) : HasDeclaredType(schema[i], m.d[schema[i].name])

\* The record holds what validation gave it: no value that was assigned to
\* a field of its input or output without validation.
AsValidated(self) ==
    /\ WellTyped(Input(self.cls), self.input)
    /\ WellTyped(Output(self.cls), self.output)

\* The part of C19 that holds: a record that holds what validation gave it,
\* of any other class or a Read whose destination is what its fileName
\* gives, is validated a second time to an equal record, from the record and
\* from its dict().
C19_IdempotentWithoutHint ==
    ret.op = "revalidate" /\ AsValidated(ret.before)
    /\ (ret.before.cls = "ReadAlgo" => FileNameGivesDestination(ret.before)) =>
        /\ ret.exc = "none"
        /\ RecordsEqual(ret.rec, ret.before)

-----------------------------------------------------------------------------
(* Claims about the standard six-step CC4SIn: specification ProgramSpec *)

\* The classes of the six steps, in order.
SixSteps ==
    << "ReadAlgo", "ReadAlgo", "DefineHolesAndParticlesAlgo", "SliceOperatorAlgo",
       "VertexCoulombIntegralsAlgo", "CoupledClusterAlgo" >>

\* The CC4SIn has the six steps, step 3 takes the eigenEnergies named as the
\* destination of step 1, and every Object a step takes is an Object, of the
\* same class and name, that an earlier step gives out.
Chained(p) ==
    /\ [i \in 1..Len(p.algos) |-> p.algos[i].cls] = SixSteps
    /\ p.algos[3].input.d.eigenEnergies.s = p.algos[1].output.d.destination.s
    /\ \A i \in 1..Len(p.algos) :
          \A o \in ObjectsOf(p.algos[i].input) :
              \E j \in 1..(i - 1) : o \in ObjectsOf(p.algos[j].output)

\* C21: the CC4SIn of CoupledClusterGenerator.get_input_set, and the CC4SIn
\* loaded from the six-step document, have the six steps Read, Read,
\* DefineHolesAndParticles, SliceOperator, VertexCoulombIntegrals,
\* CoupledCluster; step 3's eigenEnergies is named as step 1's destination;
\* every Object a step takes is given out by an earlier step.
C21_SixStepsAreChained ==
    /\ prog # NoProgram /\ Len(prog.algos) = Len(SixSteps) => Chained(prog)
    /\ (loaded.op = "from_file" /\ docOf # NoProgram
        /\ Len(docOf.algos) = Len(SixSteps)) =>
           loaded.exc = "none" /\ Chained(loaded.prog)

\* The six-step CC4SIn was built, written and loaded.
C21_Witness ==
    /\ prog = get_input_set_cc4sin /\ docOf = prog
    /\ loaded.op = "from_file" /\ loaded.exc = "none"
    /\ Len(loaded.prog.algos) = 6

-----------------------------------------------------------------------------
(* Claims about the convenience constructors: specification RecordSpec *)

\* The file name is the fileName of the Write of the object named n, bare or
\* under a directory.
IsFileOf(filename, n) == Path_name(filename) = <<n, DOT, "yaml">>

\* C22: for the name n of every registered Object class,
\* WriteAlgo.from_object(n) has the source n and the fileName n.yaml, and
\* ReadAlgo.from_filename of that fileName, bare or under a directory, gives
\* a Read whose fileName is the one given and whose destination is the
\* Object of class n named n.
C22_NamingConvention ==
    /\ ret.op = "from_object" =>
          \A n \in ObjectClasses :
              ret.object_name = <<n>> =>
                  /\ ret.exc = "none"
                  /\ rec.input.d.source = V_Str(<<n>>)
                  /\ rec.input.d.fileName = V_FName(<<n, DOT, "yaml">>)
    /\ ret.op = "from_filename" =>
          \A n \in ObjectClasses :
              IsFileOf(ret.filename, n) =>
                  /\ ret.exc = "none"
                  /\ rec.input.d.fileName = V_FName(ret.filename)
                  /\ rec.output.d.destination = V_Object(n, <<n>>)

\* A Read was built from the file of CoulombIntegrals under a directory.
C22_Witness ==
    /\ ret.op = "from_filename"
    /\ ret.filename = <<"in", SEP, "CoulombIntegrals", DOT, "yaml">>
    /\ rec.output.d.destination = V_Object("CoulombIntegrals", <<"CoulombIntegrals">>)

-----------------------------------------------------------------------------
(* C23: the tensor component files of a variant *)

\* The element-file suffixes a variant declares.
SuffixesOf(cls) == Range(elements_files_exts(cls))

\* The 16 component files of the Coulomb integrals stored under "ci".
CoulombIntegralsOfCi ==
    { <<"ci", DOT, "components", DOT, w \o x \o y \o z, DOT, "elements">> :
        w \in {"h", "p"}, x \in {"h", "p"}, y \in {"h", "p"}, z \in {"h", "p"} }

\* C23: elements_files called with one base name b returns exactly the paths
\* b + s for the suffixes s the variant declares; called with a pair
\* (src, dst) it returns exactly the pairs (src + s, dst + s); for ResultDict,
\* which declares no element files, it returns the empty set; for
\* CoulombIntegrals and the base "ci" the result is exactly the 16 paths
\* ci.components.wxyz.elements with w, x, y, z each h or p.
C23_ElementsFiles ==
    (call.op = "elements_files" /\ call.basename.t # "Path") =>
        /\ call.exc = "none"
        /\ call.basename.t = "str" =>
              call.value = {Path(call.basename.s \o s) :
                               s \in SuffixesOf(call.cls)}
        /\ (call.basename.t = "tuple" /\ Len(call.basename.items) = 2) =>
              call.value = {<<Path(call.basename.items[1] \o s),
                              Path(call.basename.items[2] \o s)>> :
                               s \in SuffixesOf(call.cls)}
        /\ call.cls = "ResultDict" => call.value = {}
        /\ (call.cls = "CoulombIntegrals" /\ call.basename = StrArg(<<"ci">>)) =>
              /\ Cardinality(call.value) = 16
              /\ {Path_str(p) : p \in call.value} = CoulombIntegralsOfCi

C23_Witness ==
    /\ call.op = "elements_files"
    /\ call.cls = "CoulombIntegrals"
    /\ call.basename = StrArg(<<"ci">>)
    /\ Cardinality(call.value) = 16

-----------------------------------------------------------------------------
(* C24: the additional files of a variant *)

\* The sidecar filenames a variant declares.
SidecarsOf(cls) == Range(additional_filenames(cls))

\* dir(b) / a as a path.
InDirOf(b, a) == Path_truediv(Path_parent(Path(b)), a)

\* C24: additional_files called with one base name b returns exactly the paths
\* dir(b) / a for the sidecar filenames a the variant declares, each in the
\* directory of b and named a whatever the stem of b; called with a pair
\* (src, dst) it returns exactly the pairs (dir(src) / a, dir(dst) / a); for a
\* variant without sidecar filenames it returns the empty set.
C24_AdditionalFiles ==
    (call.op = "additional_files" /\ call.basename.t # "Path") =>
        /\ call.exc = "none" /\ ~call.none
        /\ call.basename.t = "str" =>
              /\ call.value = {InDirOf(call.basename.s, a) :
                                  a \in SidecarsOf(call.cls)}
              /\ \A p \in call.value :
                    /\ Path_parent(p) = Path_parent(Path(call.basename.s))
                    /\ p.parts # <<>>
                    /\ p.parts[Len(p.parts)] \in SidecarsOf(call.cls)
              /\ Cardinality(call.value) = Cardinality(SidecarsOf(call.cls))
        /\ (call.basename.t = "tuple" /\ Len(call.basename.items) = 2) =>
              call.value = {<<InDirOf(call.basename.items[1], a),
                              InDirOf(call.basename.items[2], a)>> :
                               a \in SidecarsOf(call.cls)}
        /\ SidecarsOf(call.cls) = {} => call.value = {}

C24_Witness ==
    /\ call.op = "additional_files"
    /\ call.cls = "CoulombVertex"
    /\ call.basename = StrArg(<<"in", SEP, "Mybase">>)
    /\ Cardinality(call.value) = 2
    /\ Path(<<"in", SEP, "State", DOT, "yaml">>) \in call.value

-----------------------------------------------------------------------------
(* C26: the directory and the base name of an object file path *)

\* The path of the objects stored under base b in directory d (with its
\* trailing separator, or empty), spelled with ending e.
Spelled(d, b, e) == d \o b \o e

\* C26: _object_dir_basename gives the same (directory, base) pair for the
\* three spellings d/c, d/c.yaml and d/c.elements of one object, namely
\* (d, c); it raises ValueError for a path whose name ends with ".", for a
\* path with more than one suffix, and for a path whose single suffix is
\* neither .yaml nor .elements.
C26_ObjectDirBasename ==
    call.op = "_object_dir_basename" =>
        /\ \A d \in ObjectDirs, b \in ObjectBases,
              e \in {<<>>, <<DOT, "yaml">>, <<DOT, "elements">>} :
              call.fpath = Spelled(d, b, e) =>
                  /\ call.exc = "none"
                  /\ call.dir = Path(d)
                  /\ call.base = b
        /\ (Path_name(call.fpath) # <<>>
            /\ Path_name(call.fpath)[Len(Path_name(call.fpath))] = DOT) =>
              call.exc = "ValueError"
        /\ Len(Path_suffixes(Path_name(call.fpath))) > 1 =>
              call.exc = "ValueError"
        /\ (Len(Path_suffixes(Path_name(call.fpath))) = 1
            /\ Path_suffixes(Path_name(call.fpath))[1]
                  \notin {<<DOT, "yaml">>, <<DOT, "elements">>}) =>
              call.exc = "ValueError"

C26_Witness ==
    /\ call.op = "_object_dir_basename"
    /\ call.fpath = <<"a", SEP, "b", SEP, "c", DOT, "elements">>
    /\ call.exc = "none"
    /\ call.dir = Path(<<"a", SEP, "b">>)
    /\ call.base = <<"c">>

-----------------------------------------------------------------------------
(* C25, C29: what copy_or_link_objects leaves in the destination directory *)

\* The destination directory as an absolute path.
DestPath == abspath(Path(DestDir))

\* The source directory and base, and the destination base, of entry e.
SourceDir(e) == _object_dir_basename(e.prev_file).dir
SourceBase(e) == _object_dir_basename(e.prev_file).base
DestBase(e) == _object_dir_basename(e.input_file).base

\* The (source, destination) pairs the claim names for entry e: the primary
\* file, and one pair for every pair of elements_files and additional_files.
ExpectedFiles(e) ==
    { [src |-> abspath(Path_truediv(SourceDir(e),
                                    SourceBase(e) \o Object_ext(e.cls))),
       dst |-> Path_truediv(DestPath, DestBase(e) \o Object_ext(e.cls))] }
    \cup { [src |-> abspath(Path_joinpath(SourceDir(e), pair[1])),
            dst |-> Path_joinpath(DestPath, pair[2])] :
             pair \in elements_files(e.cls,
                        TupleArg(<<SourceBase(e), DestBase(e)>>)).value
                      \cup additional_files(e.cls,
                        TupleArg(<<SourceBase(e), DestBase(e)>>)).value }

\* The destination directory holds f.dst, a symlink to f.src or a copy of it
\* as the arguments of the call ask.
Transferred(f) ==
    /\ f.dst \in DOMAIN destdir
    /\ destdir[f.dst].src = f.src
    /\ destdir[f.dst].kind =
          (IF call.link_files /\ call.src_host = "None"
           THEN "symlink" ELSE "copy")

Returned == call.op = "copy_or_link_objects" /\ call.exc = "none"

\* The destination paths entry i of the mapping wrote.
WrittenBy(i) == {call.log[i][k].dst : k \in DOMAIN call.log[i]}

\* C25: for each entry given to copy_or_link_objects, after the call the
\* destination directory contains the primary file <destination base><ext>
\* taken from <source dir>/<source base><ext>, one file for every pair of the
\* variant's elements_files and one for every pair of its additional_files,
\* each a symlink to its source when link_files is true and no source host is
\* given, and a copy otherwise.
C25_AsStated ==
    Returned =>
        \A i \in DOMAIN call.files :
            \A f \in ExpectedFiles(call.files[i]) : Transferred(f)

\* What holds of the code: every file of an entry whose destination path no
\* other entry writes is in the destination directory as C25 states.
C25_UnsharedDestinations ==
    Returned =>
        \A i \in DOMAIN call.files :
            \A f \in ExpectedFiles(call.files[i]) :
                (\A j \in DOMAIN call.files : j # i => f.dst \notin WrittenBy(j))
                    => Transferred(f)

C25_Witness ==
    /\ Returned
    /\ Len(call.files) = 1
    /\ call.files[1].cls = "CoulombVertex"
    /\ call.files[1].prev_file
          = <<"prevdir", SEP, "SomeCoulombVertex", DOT, "yaml">>
    /\ call.link_files /\ call.src_host = "None"
    /\ Cardinality(DOMAIN destdir) = 4
    /\ destdir[Path(<<SEP, "work", SEP, "run", SEP, "in", SEP,
                      "CoulombVertex", DOT, "elements">>)].src
          = Path(<<SEP, "work", SEP, "prevdir", SEP,
                   "SomeCoulombVertex", DOT, "elements">>)

\* The sidecar a of entry e in the destination directory refers to the
\* sidecar in the source directory of e.
SidecarOfOwnSource(e, a) ==
    /\ Path_truediv(DestPath, a) \in DOMAIN destdir
    /\ destdir[Path_truediv(DestPath, a)].src
          = abspath(Path_truediv(SourceDir(e), a))

\* C29: after copy_or_link_objects has processed all entries, for every entry
\* the sidecar files of its variant in the destination directory refer to the
\* sidecar files in that entry's own source directory, also when two entries
\* have different source directories, and no destination path written for
\* one entry is replaced while processing another entry.
C29_AsStated ==
    Returned =>
        /\ \A i \in DOMAIN call.files :
              \A a \in SidecarsOf(call.files[i].cls) :
                  SidecarOfOwnSource(call.files[i], a)
        /\ \A i, j \in DOMAIN call.files :
              i # j => WrittenBy(i) \cap WrittenBy(j) = {}

\* What holds of the code: the sidecars in the destination directory are
\* those of the last entry that declares them.
C29_LastEntryWins ==
    Returned =>
        \A i \in DOMAIN call.files :
            \A a \in SidecarsOf(call.files[i].cls) :
                (\A j \in DOMAIN call.files :
                    j > i => a \notin SidecarsOf(call.files[j].cls))
                    => SidecarOfOwnSource(call.files[i], a)

\* EigenEnergies and CoulombVertex from different directories, as
\* get_input_set maps them.
C29_Witness ==
    /\ Returned
    /\ Len(call.files) = 2
    /\ call.files[1].cls = "EigenEnergies"
    /\ call.files[2].cls = "CoulombVertex"
    /\ SourceDir(call.files[1]) # SourceDir(call.files[2])
    /\ ~SidecarOfOwnSource(call.files[1], <<"State", DOT, "yaml">>)

-----------------------------------------------------------------------------
(* C28: a hint that names no registered variant *)

\* The last construction's call without its object_type hint.
WithoutHint ==
    BaseAlgo_init("ReadAlgo", ret.name,
                  V_Dict(Drop(ret.input.d, "object_type")), ret.output)

UnregisteredHint == GivenHint.tag = "str" /\ ~IsKey(GivenHint)

\* C28: when the object_type hint of a Read is a string that names no
\* registered variant, the resolver behaves exactly as if no hint had been
\* given: the construction succeeds or fails as without the hint, with the
\* same destination, the variant inferred from the fileName is used, no
\* warning is emitted, and AlgorithmInitializationError is raised only if the
\* fileName yields no variant either.
C28_UnregisteredHintIsNoHint ==
    ReadBuilt /\ UnregisteredHint =>
        /\ ret.exc = WithoutHint.exc
        /\ ret.errors = WithoutHint.errors
        /\ ret.warned = 0 /\ WithoutHint.warned = 0
        /\ ret.exc = "none" =>
              /\ rec.output = WithoutHint.rec.output
              /\ StemIsKey /\ Produced(_OBJECTS[GivenStem[1]])
        /\ StemIsKey => ret.exc = "none"
        /\ ret.exc = "AlgorithmInitializationError" => ~StemIsKey

C28_Witness ==
    /\ ReadBuilt /\ GivenHint = V_Str(<<"NoSuchObject">>)
    /\ GivenFileName = <<"CoulombVertex", DOT, "yaml">>
    /\ Produced("CoulombVertex") /\ ret.warned = 0

C28_WitnessNoVariant ==
    /\ ReadBuilt /\ GivenHint = V_Str(<<"NoSuchObject">>)
    /\ ~StemIsKey
    /\ Failed("AlgorithmInitializationError")

-----------------------------------------------------------------------------
(* C27: the destination of a Read and the record's current input *)

\* What the resolver yields for the fileName and the object_type the record
\* holds now.
Resolved(self) ==
    get_object(self.input.d.fileName.s, self.output.d.destination.s,
               Lookup(self.input.d, "object_type"))

\* The variant of the destination is the one the resolver yields.
DestinationIsResolved(self) ==
    /\ Resolved(self).exc = "none"
    /\ self.output.d.destination.tag = "Object"
    /\ self.output.d.destination.cls = Resolved(self).obj.cls

HoldsRead == rec # NoRecord /\ rec.cls = "ReadAlgo"

\* C27: for every Read reachable by construction followed by successful
\* assignments to its input or output, the variant of output.destination is
\* the variant the resolver yields for the record's current input.fileName
\* and input.object_type.
C27_AsStated == HoldsRead => DestinationIsResolved(rec)

\* What holds of the code: the destination is the resolver's right after the
\* construction and after a successful assignment to output, which runs
\* destination_object on the input the record holds.
C27_ResolvedWhenOutputValidated ==
    (HoldsRead /\ ret.exc = "none"
     /\ (ret.op = "init" \/ (ret.op = "setattr" /\ ret.attr = "output"))) =>
        DestinationIsResolved(rec)

\* An assignment to input has passed validation and the destination is no
\* longer what the resolver yields.
C27_Witness ==
    /\ HoldsRead
    /\ ret.op = "setattr" /\ ret.attr = "input" /\ ret.exc = "none"
    /\ DestinationIsResolved(ret.before)
    /\ ~DestinationIsResolved(rec)

-----------------------------------------------------------------------------
(* C30: ReadAlgo.build and its object_type argument *)

\* ReadAlgo(input={fileName, object_type}, output={destination}) for the
\* arguments of the last build.
ConstructedWithHint ==
    BaseAlgo_init("ReadAlgo", Missing,
                  V_Dict([fileName |-> V_Str(ret.filename),
                          object_type |-> ret.object_type]),
                  V_Dict([destination |-> V_Str(ret.destination)]))

\* The same construction without the object_type.
ConstructedWithoutHint ==
    BaseAlgo_init("ReadAlgo", Missing,
                  V_Dict([fileName |-> V_Str(ret.filename)]),
                  V_Dict([destination |-> V_Str(ret.destination)]))

\* C30: ReadAlgo.build(filename, destination, object_type) yields the same
\* record as constructing ReadAlgo with input {fileName, object_type} and
\* output {destination}; when object_type names a registered variant the
\* destination has that variant, also for a filename whose stem names none.
C30_AsStated ==
    ret.op = "build" =>
        /\ ret.exc = ConstructedWithHint.exc
        /\ rec = ConstructedWithHint.rec
        /\ (IsKey(ret.object_type) /\ Path_name(ret.filename) # <<>>) =>
              /\ ret.exc = "none"
              /\ rec.output.d.destination
                    = V_Object(_OBJECTS[ret.object_type.s[1]], ret.destination)

\* What holds of the code: build yields the record constructed from the
\* filename and the destination alone, whatever its object_type argument.
C30_BuildIgnoresObjectType ==
    ret.op = "build" =>
        /\ ret.exc = ConstructedWithoutHint.exc
        /\ rec = ConstructedWithoutHint.rec
        /\ ret.exc = "none" => Lookup(rec.input.d, "object_type") = V_None

\* A build with a hint that names a variant, for a filename whose stem names
\* none, raises.
C30_Witness ==
    /\ ret.op = "build"
    /\ ret.filename = <<"CoulombVertex", "2", DOT, "yaml">>
    /\ ret.object_type = V_Str(<<"CoulombVertex">>)
    /\ ret.exc = "AlgorithmInitializationError"
    /\ ConstructedWithHint.exc = "none"
====
